---- MODULE Spec2Model ----
(***************************************************************************)
(* Realtime chat relay of vaniBackend: the socket layer (presence map,     *)
(* room map, sendMessage fan-out with per-language translation) and the    *)
(* REST chat controller (saveMessage, translateMessage).  Every await of   *)
(* the JavaScript handlers is a point where other handlers may run, so a   *)
(* handler is one action per stretch of code between two awaits.           *)
(***************************************************************************)
EXTENDS Integers, Sequences, FiniteSets, TLC

\* ---------------------------------------------------------------- bounds
NumUsers == 3          \* identities in the user directory
MaxSockets == NumUsers \* connections accepted during a run
MaxSends == 2          \* sendMessage events handled during a run
MaxRest == 2           \* REST chat-controller requests during a run

Users == 1..NumUsers
SocketIds == 1..MaxSockets
GhostUser == 0         \* an id that no directory record carries
NoRoom == ""           \* roomId absent from the event
NoReceiver == -1       \* receiverId absent from the event
NoSocket == 0          \* socketId: null in the directory
RoomIds == {"r1"}
Langs == {"en", "fr", "de"}
Texts == {"hello", ""}
DisconnectReasons == {"transport close", "ping timeout", "transport error"}
PermanentReasons == {"transport close", "ping timeout"}

VARIABLES
  dirLang,      \* User collection: preferredLanguage of every identity
  dirStatus,    \* User collection: [status, socketId] of every identity
  sockets,      \* per socket id: connection state, identity, close reason
  users,        \* the users object {socket.id: {userId, socketId}}, in key order
  rooms,        \* the rooms object {roomId: [socket.id]}
  sends,        \* the sendMessage handler invocations, in arrival order
  chats,        \* Chat collection, in the order the writes were applied
  inbox,        \* per socket id: events pushed to that address, in order
  lastReason,   \* reason of the latest 'disconnect' event
  restCount,    \* REST requests handled so far
  audios,       \* the translateAudio handler invocations, in arrival order
  configured,   \* translator.js: AZURE_TRANSLATOR_KEY and _REGION are both set
  providerEmpty,\* the texts the translation provider answers with an empty text
  translationCache, \* translator.js: the Map, entries in insertion order
  now,          \* Date.now(), in ticks
  calls,        \* translateText / translateBatch invocations, in arrival order
  requests,     \* translatorClient.post requests issued, in order
  stt,          \* the speechToText invocation
  pipe,         \* the translateSpeech invocation
  batchRun,     \* the batchTranslateSpeech invocation
  migration,    \* the migrateChatData run
  tts,          \* the temp directory and the textToSpeech attempts under way
  rtc           \* the 'offer' events handled and the handlers' isConnected flags

\* the state of utils/translator.js, of utils/speechToTextModule.js and of
\* the translateAudio handlers
extVars == <<audios, configured, providerEmpty, translationCache, now, calls,
             requests, stt, pipe, batchRun, migration, tts, rtc>>

vars == <<dirLang, dirStatus, sockets, users, rooms, sends, chats, inbox,
          lastReason, restCount, extVars>>

\* ------------------------------------------------------- pure helpers

\* the provider's translation of text into lang (differs from text)
ProviderText(text, lang) == text \o "@" \o lang

\* u.preferredLanguage || 'en'
LangOrDefault(lang) == IF lang = "" THEN "en" ELSE lang

\* text.trim() is empty
IsBlank(text) == text = "" \/ text = " "

Range(seq) == {seq[i] : i \in 1..Len(seq)}

RemoveAt(seq, i) == SubSeq(seq, 1, i - 1) \o SubSeq(seq, i + 1, Len(seq))

\* array.filter(id => id !== x)
Without(seq, x) == SelectSeq(seq, LAMBDA y : y # x)

\* [...new Set(array)]: first occurrences, in order
RECURSIVE Dedup(_)
Dedup(seq) ==
  IF seq = <<>> THEN <<>>
  ELSE LET init == Dedup(SubSeq(seq, 1, Len(seq) - 1))
           last == seq[Len(seq)]
       IN IF last \in Range(init) THEN init ELSE Append(init, last)

\* users of a set as an ascending array (the order User.find returns them)
RECURSIVE SortedSeq(_)
SortedSeq(S) ==
  IF S = {} THEN <<>>
  ELSE LET m == CHOOSE x \in S : \A y \in S : x <= y
       IN <<m>> \o SortedSeq(S \ {m})

\* ------------------------------------------------ presence map (users)

\* Object.keys(users).find(key => users[key].userId === userId)
FindSocket(userId) ==
  LET hits == {i \in 1..Len(users) : users[i].userId = userId}
  IN IF hits = {} THEN NoSocket
     ELSE users[CHOOSE i \in hits : \A j \in hits : i <= j].socketId

\* users[socket.id] = {userId, socketId}
UsersSet(us, s, u) ==
  IF \E i \in 1..Len(us) : us[i].socketId = s
  THEN [i \in 1..Len(us) |->
          IF us[i].socketId = s THEN [socketId |-> s, userId |-> u] ELSE us[i]]
  ELSE Append(us, [socketId |-> s, userId |-> u])

\* delete users[socket.id]
UsersDelete(us, s) == SelectSeq(us, LAMBDA e : e.socketId # s)

\* io.sockets.sockets.get(id) is defined
Live(s) == s \in SocketIds /\ sockets[s].state = "open"

\* io.to(address).emit(event): appended to what was pushed to that address
Push(box, s, ev) == [box EXCEPT ![s] = Append(@, ev)]

\* ------------------------------------------------------------ Init

FreeSocket ==
  [state |-> "free", user |-> GhostUser, setup |-> "none",
   offline |-> "none", heartbeat |-> FALSE, beat |-> "none"]

\* preferredLanguage of the directory records: one sender language with the
\* others sharing one language, with the others alternating between two
\* languages, and a non-English sender with English-speaking others
DirProfiles ==
  { [u \in Users |-> IF u = 1 THEN "en" ELSE "fr"],
    [u \in Users |-> IF u = 1 THEN "en" ELSE IF u % 2 = 0 THEN "fr" ELSE "de"],
    [u \in Users |-> IF u = 1 THEN "de" ELSE IF u % 2 = 0 THEN "en" ELSE "" ] }

\* the server after start-up: the directory, no connection, no message
InitChat ==
  /\ dirLang \in DirProfiles
  /\ dirStatus = [u \in Users |-> [status |-> "offline", socketId |-> NoSocket]]
  /\ sockets = [s \in SocketIds |-> FreeSocket]
  /\ users = <<>>
  /\ rooms = <<>>
  /\ sends = <<>>
  /\ chats = <<>>
  /\ inbox = [s \in SocketIds |-> <<>>]
  /\ lastReason = ""
  /\ restCount = 0
  /\ audios = <<>>

\* utils/translator.js after it was loaded: an empty Map, no call yet
InitTranslatorIdle ==
  /\ translationCache = <<>>
  /\ now = 0
  /\ calls = <<>>
  /\ requests = <<>>

\* no speechToText call was made
SttIdle ==
  [pc |-> "idle", valid |-> TRUE, maxRetries |-> 0, attempts |-> 0, tries |-> 0,
   waits |-> <<>>, errors |-> <<>>, finalText |-> <<>>,
   recognitionStarted |-> FALSE, timer |-> "none", stopRequested |-> FALSE,
   providerCalls |-> 0, lastError |-> "", outcome |-> <<>>, recognizers |-> <<>>]

NoAudio == <<>>           \* audio: null
NoError == ""             \* error: null

\* the result object of translateSpeech and of one batch item
Result(original, translated, audio, error) ==
  [text |-> [original |-> original, translated |-> translated],
   audio |-> audio, error |-> error]

DEFAULT_RESULT == Result("", "", NoAudio, NoError)

\* no translateSpeech call was made
PipeIdle ==
  [pc |-> "idle", owner |-> 0, audioData |-> "missing", sourceLanguage |-> "",
   targetLanguage |-> "", source |-> "", target |-> "", creds |-> TRUE,
   original |-> "", translated |-> "", stages |-> <<>>, attempt |-> 0,
   attempts |-> 0, calls |-> 0, tests |-> 0, synth |-> 0, repaired |-> FALSE,
   provided |-> NoAudio, translationError |-> NoError, result |-> DEFAULT_RESULT]

\* no batchTranslateSpeech call was made
BatchIdle ==
  [pc |-> "idle", items |-> <<>>, source |-> "", target |-> "", valid |-> <<>>,
   invalidResults |-> <<>>, failedTranscriptionResults |-> <<>>,
   validTranscriptions |-> <<>>, transcriptionMap |-> <<>>,
   translationMap |-> <<>>, ttsResults |-> <<>>, pos |-> 0, results |-> <<>>]

\* the migration script was not started
MigrationIdle ==
  [pc |-> "idle", oldMessages |-> <<>>, runs |-> 0, failed |-> FALSE,
   initial |-> <<>>]

\* no synthesis is under way and the temp directory holds no tts_temp file
TtsIdle == [files |-> <<>>, jobs |-> <<>>]

\* no offer was handled; let isConnected = false in every handleWebRTC
RtcIdle == [isConnected |-> [s \in SocketIds |-> FALSE], offers |-> <<>>]

InitSpeechIdle ==
  /\ stt = SttIdle
  /\ pipe = PipeIdle
  /\ batchRun = BatchIdle
  /\ migration = MigrationIdle
  /\ tts = TtsIdle
  /\ rtc = RtcIdle

Init ==
  /\ InitChat
  /\ configured = TRUE
  /\ providerEmpty = {}
  /\ InitTranslatorIdle
  /\ InitSpeechIdle

\* ------------------------------------------- connection and presence

\* io.on('connection'): the listeners are attached and handleUserConnection
\* runs up to its await of User.findByIdAndUpdate.  Socket ids are fresh.
Connect(u) ==
  /\ \E s \in SocketIds :
       /\ sockets[s].state = "free"
       /\ \A t \in SocketIds : t < s => sockets[t].state # "free"
       /\ sockets' = [sockets EXCEPT ![s] =
            [FreeSocket EXCEPT !.state = "open", !.user = u, !.setup = "pending"]]
  /\ UNCHANGED <<extVars, dirLang, dirStatus, users, rooms, sends, chats, inbox,
                 lastReason, restCount>>

\* handleUserConnection resumes after the directory update: the online
\* broadcast (setup = "done"), the heartbeat timer, the disconnect listener,
\* then the entry users[socket.id].  It resumes whether or not the socket is
\* still open.
SetupDone(s) ==
  /\ sockets[s].setup = "pending"
  /\ dirStatus' = [dirStatus EXCEPT ![sockets[s].user] =
                     [status |-> "online", socketId |-> s]]
  /\ users' = UsersSet(users, s, sockets[s].user)
  /\ sockets' = [sockets EXCEPT ![s].setup = "done", ![s].heartbeat = TRUE]
  /\ UNCHANGED <<extVars, dirLang, rooms, sends, chats, inbox, lastReason, restCount>>

\* rooms with socket.id filtered out of every list, the emptied lists kept
RoomsWithoutKeepingEmpty(rs, s) == [r \in DOMAIN rs |-> Without(rs[r], s)]

\* rooms with socket.id filtered out of every list, empty rooms deleted
RoomsWithout(rs, s) ==
  LET keep == {r \in DOMAIN rs : Without(rs[r], s) # <<>>}
  IN [r \in keep |-> Without(rs[r], s)]

\* what the 'disconnect' listener of handleDisconnect leaves in users; the
\* reason is logged and not read again
UsersAfterDisconnect(us, s, reason) == UsersDelete(us, s)

\* whether the 'disconnect' listener of handleUserConnection, once attached,
\* starts the offline update and broadcast; the listener takes no reason
StartsOffline(sock, reason) == sock.setup = "done"

\* the 'disconnect' event with its reason: handleDisconnect's listener, and
\* the listener of handleUserConnection when it was attached before the event
\* (it stops the heartbeat and starts the offline update)
Disconnect(s, reason) ==
  /\ sockets[s].state = "open"
  /\ lastReason' = reason
  /\ rooms' = RoomsWithout(rooms, s)
  /\ users' = UsersAfterDisconnect(users, s, reason)
  /\ sockets' = [sockets EXCEPT ![s] =
       [@ EXCEPT !.state = "closed",
                 !.heartbeat = IF StartsOffline(sockets[s], reason) THEN FALSE ELSE @,
                 !.offline = IF StartsOffline(sockets[s], reason) THEN "pending" ELSE @]]
  /\ UNCHANGED <<extVars, dirLang, dirStatus, sends, chats, inbox, restCount>>

\* the disconnect listener of handleUserConnection resumes after its
\* directory update and broadcasts the offline status (offline = "done")
OfflineDone(s) ==
  /\ sockets[s].offline = "pending"
  /\ dirStatus' = [dirStatus EXCEPT ![sockets[s].user] =
                     [status |-> "offline", socketId |-> NoSocket]]
  /\ sockets' = [sockets EXCEPT ![s].offline = "done"]
  /\ UNCHANGED <<extVars, dirLang, users, rooms, sends, chats, inbox, lastReason, restCount>>

\* the heartbeat interval of a connection fires: its callback runs up to the
\* await of User.findByIdAndUpdate (one update of a connection in flight at
\* a time)
HeartbeatFires(s) ==
  /\ sockets[s].heartbeat
  /\ sockets[s].beat = "none"
  /\ sockets' = [sockets EXCEPT ![s].beat = "pending"]
  /\ UNCHANGED <<extVars, dirLang, dirStatus, users, rooms, sends, chats, inbox,
                 lastReason, restCount>>

\* the heartbeat's directory update {lastActive, status: 'online'} is applied
\* and the callback ends; socketId is not part of the update
HeartbeatDone(s) ==
  /\ sockets[s].beat = "pending"
  /\ dirStatus' = [dirStatus EXCEPT ![sockets[s].user].status = "online"]
  /\ sockets' = [sockets EXCEPT ![s].beat = "none"]
  /\ UNCHANGED <<extVars, dirLang, users, rooms, sends, chats, inbox, lastReason, restCount>>

\* a sweep that takes an entry for stale once its connection has finished
\* the setup
StaleAfterSetup(user) ==
  ~(user.socketId \in SocketIds /\ sockets[user.socketId].setup = "pending")

\* const socket = io.sockets.sockets.get(user?.socketId); if (!socket)
Stale(user) == ~Live(user.socketId)

\* the five-minute sweep of the users object: delete users[userId] for every
\* stale entry
Sweep ==
  /\ users' = SelectSeq(users, LAMBDA e : ~Stale(e))
  /\ UNCHANGED <<extVars, dirLang, dirStatus, sockets, rooms, sends, chats, inbox,
                 lastReason, restCount>>

\* ------------------------------------------------------------- rooms

RoomMembers(rs, r) == IF r \in DOMAIN rs THEN rs[r] ELSE <<>>

\* the 'joinRoom' listener (its userJoined notice goes to clients only)
JoinRoom(s, r) ==
  /\ Live(s)
  /\ LET old == RoomMembers(rooms, r)
     IN rooms' = (r :> (IF s \in Range(old) THEN old ELSE Append(old, s))) @@ rooms
  /\ UNCHANGED <<extVars, dirLang, dirStatus, sockets, users, sends, chats, inbox,
                 lastReason, restCount>>

\* the 'leaveRoom' listener (its userLeft notice goes to clients only)
LeaveRoom(s, r) ==
  /\ Live(s)
  /\ rooms' = IF r \in DOMAIN rooms
              THEN LET rest == Without(rooms[r], s)
                   IN IF rest = <<>>
                      THEN [q \in DOMAIN rooms \ {r} |-> rooms[q]]
                      ELSE [rooms EXCEPT ![r] = rest]
              ELSE rooms
  /\ UNCHANGED <<extVars, dirLang, dirStatus, sockets, users, sends, chats, inbox,
                 lastReason, restCount>>

\* ------------------------------------------------- sendMessage fan-out

NewHandler(s, message, roomId, receiverId) ==
  [sock |-> s, user |-> sockets[s].user, message |-> message, roomId |-> roomId,
   receiverId |-> receiverId, pc |-> "findSender", originalLanguage |-> "",
   translations |-> <<>>, roomUsers |-> <<>>, receiverLang |-> "",
   pending |-> <<>>, invoked |-> <<>>, failed |-> {}, save |-> "", result |-> ""]

ErrorEvent(m, text) ==
  [ev |-> "error", id |-> m, content |-> text, translations |-> <<>>, room |-> NoRoom]

ReceiveMessage(m, h, content) ==
  [ev |-> "receiveMessage", id |-> m, content |-> content,
   translations |-> h.translations, room |-> h.roomId]

\* the 'sendMessage' listener up to its first await (User.findById of the sender)
SendMessage(s, message, roomId, receiverId) ==
  /\ Live(s)
  /\ Len(sends) < MaxSends
  /\ LET m == Len(sends) + 1
         h == NewHandler(s, message, roomId, receiverId)
     IN IF message = ""
        THEN /\ sends' = Append(sends, [h EXCEPT !.pc = "done", !.result = "error"])
             /\ inbox' = Push(inbox, s, ErrorEvent(m, "Message content is required"))
        ELSE /\ sends' = Append(sends, h)
             /\ inbox' = inbox
  /\ UNCHANGED <<extVars, dirLang, dirStatus, sockets, users, rooms, chats, lastReason, restCount>>

\* the listener resumes with the sender's record: originalLanguage, the
\* translations map seeded with the original, new Chat, then the branch on
\* roomId / receiverId up to the next await
FindSenderDone(m) ==
  /\ m \in 1..Len(sends)
  /\ sends[m].pc = "findSender"
  /\ LET h == sends[m]
         orig == LangOrDefault(dirLang[h.user])
         h1 == [h EXCEPT !.originalLanguage = orig,
                         !.translations = (orig :> h.message)]
     IN sends' = [sends EXCEPT ![m] =
          IF h.roomId # NoRoom THEN [h1 EXCEPT !.pc = "findRoomUsers"]
          ELSE IF h.receiverId # NoReceiver THEN [h1 EXCEPT !.pc = "findReceiver"]
          ELSE [h1 EXCEPT !.pc = "done", !.result = "none"]]
  /\ UNCHANGED <<extVars, dirLang, dirStatus, sockets, users, rooms, chats, inbox,
                 lastReason, restCount>>

\* User.find({_id: {$ne: sender}}).select('_id preferredLanguage')
RoomUsersQuery(roomId, sender) ==
  LET ids == SortedSeq(Users \ {sender})
  IN [i \in 1..Len(ids) |-> [id |-> ids[i], preferredLanguage |-> dirLang[ids[i]]]]

\* [...new Set(roomUsers.map(u => u.preferredLanguage || 'en'))]
UniqueLangsPerRecipient(roomUsers) ==
  [i \in 1..Len(roomUsers) |-> LangOrDefault(roomUsers[i].preferredLanguage)]

UniqueLangs(roomUsers) ==
  Dedup([i \in 1..Len(roomUsers) |-> LangOrDefault(roomUsers[i].preferredLanguage)])

\* targetLang && targetLang !== originalLanguage && !translations.has(targetLang)
NeedsTranslation(targetLang, originalLanguage, translations) ==
  /\ targetLang # ""
  /\ targetLang # originalLanguage
  /\ targetLang \notin DOMAIN translations

\* translateMessageText returns its input before any request:
\* targetLang === 'en' || !text.trim()
TranslateSkips(text, targetLang) == targetLang = "en" \/ IsBlank(text)

\* what translateMessageText returns once the provider has answered: the
\* translation, or the input text when the request failed
TranslateResult(text, targetLang, ok) ==
  IF ok THEN ProviderText(text, targetLang) ELSE text

\* if (translated) translations.set(targetLang, translated)
SetIfTruthy(translations, targetLang, translated) ==
  IF translated # "" THEN (targetLang :> translated) @@ translations
  ELSE translations

\* the calls to translateMessageText for the languages in targets, each run
\* up to its await: the skipped ones have returned, the others are in flight
StartTranslations(h, targets) ==
  LET skipped == SelectSeq(targets, LAMBDA l : TranslateSkips(h.message, l))
      flying == SelectSeq(targets, LAMBDA l : ~TranslateSkips(h.message, l))
      tr == [l \in DOMAIN h.translations \cup
                   (IF h.message # "" THEN Range(skipped) ELSE {}) |->
               IF l \in DOMAIN h.translations THEN h.translations[l] ELSE h.message]
  IN [h EXCEPT !.invoked = targets, !.pending = flying, !.translations = tr,
               !.pc = IF flying = <<>> THEN "saving" ELSE "translating"]

\* handleRoomMessage resumes with roomUsers and starts one translation per
\* unique language
FindRoomUsersDone(m) ==
  /\ m \in 1..Len(sends)
  /\ sends[m].pc = "findRoomUsers"
  /\ LET h == sends[m]
         roomUsers == RoomUsersQuery(h.roomId, h.user)
         targets == SelectSeq(UniqueLangs(roomUsers),
                      LAMBDA l : NeedsTranslation(l, h.originalLanguage, h.translations))
     IN sends' = [sends EXCEPT ![m] =
                    StartTranslations([h EXCEPT !.roomUsers = roomUsers], targets)]
  /\ UNCHANGED <<extVars, dirLang, dirStatus, sockets, users, rooms, chats, inbox,
                 lastReason, restCount>>

\* handleDirectMessage resumes with the receiver's record
FindReceiverDone(m) ==
  /\ m \in 1..Len(sends)
  /\ sends[m].pc = "findReceiver"
  /\ LET h == sends[m] IN
       IF h.receiverId \notin Users
       THEN /\ sends' = [sends EXCEPT ![m] = [h EXCEPT !.pc = "done", !.result = "error"]]
            /\ inbox' = Push(inbox, h.sock, ErrorEvent(m, "Receiver not found"))
       ELSE LET receiverLang == LangOrDefault(dirLang[h.receiverId])
                targets == IF receiverLang # h.originalLanguage
                           THEN <<receiverLang>> ELSE <<>>
            IN /\ sends' = [sends EXCEPT ![m] =
                    StartTranslations([h EXCEPT !.receiverLang = receiverLang], targets)]
               /\ inbox' = inbox
  /\ UNCHANGED <<extVars, dirLang, dirStatus, sockets, users, rooms, chats, lastReason, restCount>>

\* await Promise.all(...) / the awaited single call has nothing left in flight
ReadyToSaveEarly(h) == TRUE

ReadyToSave(h) == h.pending = <<>>

\* one call of translateMessageText in flight settles: its catch turns a
\* failed request into the input text, and the caller stores a truthy result
OnTranslateResultAbort(h, i, ok) ==
  IF ok
  THEN [h EXCEPT !.translations =
            SetIfTruthy(@, h.pending[i], TranslateResult(h.message, h.pending[i], ok)),
          !.pending = RemoveAt(@, i)]
  ELSE [h EXCEPT !.pending = RemoveAt(@, i), !.failed = @ \cup {h.pending[i]},
                 !.pc = "done", !.result = "error"]

OnTranslateResult(h, i, ok) ==
  [h EXCEPT !.translations =
       SetIfTruthy(@, h.pending[i], TranslateResult(h.message, h.pending[i], ok)),
     !.pending = RemoveAt(@, i),
     !.failed = IF ok THEN @ ELSE @ \cup {h.pending[i]}]

TranslateDone(m, i, ok) ==
  /\ m \in 1..Len(sends)
  /\ i \in 1..Len(sends[m].pending)
  /\ LET h1 == OnTranslateResult(sends[m], i, ok)
     IN sends' = [sends EXCEPT ![m] =
          IF h1.pc = "translating" /\ ReadyToSave(h1)
          THEN [h1 EXCEPT !.pc = "saving"] ELSE h1]
  /\ UNCHANGED <<extVars, dirLang, dirStatus, sockets, users, rooms, chats, inbox,
                 lastReason, restCount>>

\* translations.get(userLang) || message
ContentForOriginal(translations, userLang, message) == message

ContentFor(translations, userLang, message) ==
  IF userLang \in DOMAIN translations /\ translations[userLang] # ""
  THEN translations[userLang] ELSE message

\* content of the receiveMessage sent back to the sender
EchoContentTranslated(h) ==
  IF h.roomId # NoRoom
  THEN ContentFor(h.translations, h.originalLanguage, h.message)
  ELSE ContentFor(h.translations, h.receiverLang, h.message)

EchoContent(h) == h.message

\* for (const roomUser of roomUsers): push to the socket found for the user
RECURSIVE DeliverRoom(_, _, _, _)
DeliverRoom(box, m, h, k) ==
  IF k > Len(h.roomUsers) THEN box
  ELSE LET ru == h.roomUsers[k]
           sid == FindSocket(ru.id)
           content == ContentFor(h.translations, LangOrDefault(ru.preferredLanguage),
                                 h.message)
       IN DeliverRoom(IF sid # NoSocket THEN Push(box, sid, ReceiveMessage(m, h, content))
                      ELSE box, m, h, k + 1)

DeliverDirect(box, m, h) ==
  LET sid == FindSocket(h.receiverId)
      content == ContentFor(h.translations, h.receiverLang, h.message)
  IN IF sid # NoSocket THEN Push(box, sid, ReceiveMessage(m, h, content)) ELSE box

ChatRecord(m, h) ==
  [id |-> m, sender |-> h.user, originalContent |-> h.message,
   originalLanguage |-> h.originalLanguage, translations |-> h.translations,
   room |-> h.roomId,
   receiver |-> IF h.roomId # NoRoom THEN NoReceiver ELSE h.receiverId,
   via |-> "sendMessage"]

\* newMessage.save() resolves: the record is in the collection, the pushes to
\* the recipients found in users and the echo to the sender follow without a
\* further await.  A rejected save is reported by the listener's catch.
SaveDone(m, ok) ==
  /\ m \in 1..Len(sends)
  /\ sends[m].pc = "saving"
  /\ LET h == sends[m] IN
       IF ok
       THEN /\ chats' = Append(chats, ChatRecord(m, h))
            /\ inbox' = Push(IF h.roomId # NoRoom THEN DeliverRoom(inbox, m, h, 1)
                             ELSE DeliverDirect(inbox, m, h),
                             h.sock, ReceiveMessage(m, h, EchoContent(h)))
            /\ sends' = [sends EXCEPT ![m] =
                 [h EXCEPT !.pc = "done", !.save = "ok", !.result = "echo"]]
       ELSE /\ chats' = chats
            /\ inbox' = Push(inbox, h.sock, ErrorEvent(m, "Failed to send message"))
            /\ sends' = [sends EXCEPT ![m] =
                 [h EXCEPT !.pc = "done", !.save = "rejected", !.result = "error"]]
  /\ UNCHANGED <<extVars, dirLang, dirStatus, sockets, users, rooms, lastReason, restCount>>

\* ------------------------------------------------ REST chat controller

Throws == "<throws>"     \* the call rejects instead of returning a text
Undefined == "undefined" \* an argument the caller did not pass

\* translateText(text, sourceLanguage, targetLanguage) of utils/translator.js
\* for one answer of the provider (ok: a translation; otherwise an error)
TranslateText(text, sourceLanguage, targetLanguage, ok) ==
  IF sourceLanguage = targetLanguage THEN text
  ELSE IF IsBlank(text) THEN text
  ELSE IF ok THEN ProviderText(text, targetLanguage)
  ELSE Throws

\* translateText(content, userLang) as the controller calls it: userLang is
\* bound to sourceLanguage and targetLanguage is not passed
ControllerTranslate(content, userLang, ok) ==
  TranslateText(content, userLang, Undefined, ok)

\* try { translations.set(lang, await translateText(content, lang)) } catch {}
RestSet(translations, content, lang, ok) ==
  IF ControllerTranslate(content, lang, ok) = Throws THEN translations
  ELSE (lang :> ControllerTranslate(content, lang, ok)) @@ translations

\* Chat.find({room}).distinct('sender'), then those users' preferredLanguage
RestRoomLangs(roomId) ==
  {dirLang[chats[k].sender] : k \in {j \in 1..Len(chats) : chats[j].room = roomId}}

\* the languages saveMessage translates into
RestTargets(roomId, receiverId, originalLanguage) ==
  IF roomId # NoRoom
  THEN {l \in RestRoomLangs(roomId) : l # "" /\ l # originalLanguage}
  ELSE IF receiverId \in Users /\ dirLang[receiverId] # ""
          /\ dirLang[receiverId] # originalLanguage
       THEN {dirLang[receiverId]} ELSE {}

\* the translations map saveMessage starts from: new Map()
RestInitialTranslations(originalLanguage, content) == <<>>

RECURSIVE RestTranslateAll(_, _, _, _)
RestTranslateAll(translations, content, targets, okLangs) ==
  IF targets = {} THEN translations
  ELSE LET l == CHOOSE x \in targets : TRUE
       IN RestTranslateAll(RestSet(translations, content, l, l \in okLangs),
                           content, targets \ {l}, okLangs)

\* POST saveMessage by identity u; okLangs are the languages for which the
\* provider answers with a translation
SaveMessage(u, content, roomId, receiverId, okLangs) ==
  /\ restCount < MaxRest
  /\ restCount' = restCount + 1
  /\ IF content = "" \/ (roomId = NoRoom /\ receiverId = NoReceiver)
     THEN chats' = chats
     ELSE LET orig == LangOrDefault(dirLang[u])
              tr == RestTranslateAll(RestInitialTranslations(orig, content), content,
                                     RestTargets(roomId, receiverId, orig), okLangs)
          IN chats' = Append(chats,
               [id |-> MaxSends + restCount + 1, sender |-> u,
                originalContent |-> content, originalLanguage |-> orig,
                translations |-> tr, room |-> roomId,
                receiver |-> IF roomId # NoRoom THEN NoReceiver ELSE receiverId,
                via |-> "saveMessage"])
  /\ UNCHANGED <<extVars, dirLang, dirStatus, sockets, users, rooms, sends, inbox, lastReason>>

\* POST translateMessage for the stored message k
TranslateMessage(k, targetLanguage, ok) ==
  /\ restCount < MaxRest
  /\ restCount' = restCount + 1
  /\ k \in 1..Len(chats)
  /\ chats' = IF targetLanguage \in DOMAIN chats[k].translations THEN chats
              ELSE [chats EXCEPT ![k].translations =
                      RestSet(@, chats[k].originalContent, targetLanguage, ok)]
  /\ UNCHANGED <<extVars, dirLang, dirStatus, sockets, users, rooms, sends, inbox, lastReason>>

\* ------------------------------------------------ translateAudio handler

MaxAudios == 1            \* translateAudio events handled during a run
AudioLengths == {0, 99, 100}   \* audio.length of the event's base64 text

\* an event of the relay; content is the text.original of its payload
AudioEvent(a, ev, isLocal, text) ==
  [ev |-> ev, id |-> a, content |-> text, translations |-> <<>>,
   room |-> NoRoom, isLocal |-> isLocal]

AudioError(a, text) ==
  [ev |-> "error", id |-> a, content |-> text, translations |-> <<>>,
   room |-> NoRoom, isLocal |-> TRUE]

\* the address the pushes after translateSpeech go to: the receiverSocketId
\* found before the call
AudioAddress(h) == h.receiverSocketId

\* the 'translateAudio' listener up to its await of translateSpeech: the
\* input check, the lookup of the receiver's socket id, the base64 decoding
TranslateAudio(s, audioLength, userId) ==
  /\ Live(s)
  /\ Len(audios) < MaxAudios
  /\ LET a == Len(audios) + 1
         h == [sock |-> s, userId |-> userId, receiverSocketId |-> FindSocket(userId),
               receiverSocket |-> Live(FindSocket(userId)),
               pc |-> "translateSpeech", result |-> ""]
     IN IF audioLength < 100
        THEN /\ audios' = Append(audios, [h EXCEPT !.pc = "done", !.result = "error"])
             /\ inbox' = Push(inbox, s, AudioError(a, "Invalid audio data"))
        ELSE IF h.receiverSocketId = NoSocket
        THEN /\ audios' = Append(audios, [h EXCEPT !.pc = "done", !.result = "error"])
             /\ inbox' = Push(inbox, s, AudioError(a, "Receiver not found or not online"))
        ELSE /\ audios' = Append(audios, h)
             /\ inbox' = inbox
  /\ UNCHANGED <<dirLang, dirStatus, sockets, users, rooms, sends, chats, lastReason,
                 restCount, configured, providerEmpty, translationCache, now, calls,
                 requests, stt, pipe, batchRun, migration,
                 tts, rtc>>

\* if (receiverSocket) receiverSocket.emit('translatedAudio', audioPayload)
ViaSocketObject(h) == h.receiverSocket

\* what the listener pushes once translateSpeech resolved with a transcript:
\* audioTranscript to the sender and to the receiver's address, translatedAudio
\* through the receiver's socket object, if there was one, and through its
\* address, then translationComplete to the sender
AudioPushes(box, a, h, result) ==
  LET to == AudioAddress(h)
      text == result.text.original
      b1 == Push(box, h.sock, AudioEvent(a, "audioTranscript", TRUE, text))
      b2 == Push(b1, to, AudioEvent(a, "audioTranscript", FALSE, text))
      b3 == IF ViaSocketObject(h)
            THEN Push(b2, to, AudioEvent(a, "translatedAudio", FALSE, text))
            ELSE b2
      b4 == Push(b3, to, AudioEvent(a, "translatedAudio", FALSE, text))
  IN Push(b4, h.sock, AudioEvent(a, "translationComplete", TRUE, ""))

\* the listener resumes after translateSpeech with the result object: an
\* error result is answered with one error event carrying result.error
TranslateSpeechDone(a, result) ==
  /\ a \in 1..Len(audios)
  /\ audios[a].pc = "translateSpeech"
  /\ audios' = [audios EXCEPT ![a].pc = "done",
                              ![a].result = IF result.error = NoError
                                               /\ ~IsBlank(result.text.original)
                                            THEN "ok" ELSE "error"]
  /\ inbox' = CASE result.error # NoError ->
                    Push(inbox, audios[a].sock, AudioError(a, result.error))
                [] IsBlank(result.text.original) ->
                    Push(inbox, audios[a].sock, AudioError(a, "No speech detected"))
                [] OTHER -> AudioPushes(inbox, a, audios[a], result)
  /\ UNCHANGED <<dirLang, dirStatus, sockets, users, rooms, sends, chats, lastReason,
                 restCount, configured, providerEmpty, translationCache, now, calls,
                 requests, stt, pipe, batchRun, migration,
                 tts, rtc>>

\* ------------------------------------------------- utils/translator.js

MaxCalls == 2             \* translateText / translateBatch calls during a run
MaxRequests == 3          \* provider requests one call may issue during a run
MaxClock == 3             \* ticks of Date.now() during a run
MaxBatchLen == 3          \* longest texts array passed to translateBatch
CACHE_TTL == 2            \* ticks; the module's CACHE_TTL is 3600000 ms
CACHE_MAX_SIZE == 2       \* entries; the module's CACHE_MAX_SIZE is 1000
MAX_BATCH_SIZE == 2       \* texts per request; translateBatch uses 100

TrTexts == {"hi", "yo", ""}
TrSources == {"en"}
TrTargets == {"en", "fr", "de"}
Answers == {"ok", "429", "error"}   \* the provider's answer to one request

\* the texts arrays of translateBatch
RECURSIVE SeqsUpTo(_, _)
SeqsUpTo(S, n) ==
  IF n = 0 THEN {<<>>}
  ELSE LET shorter == SeqsUpTo(S, n - 1)
       IN shorter \cup {Append(q, x) : q \in {r \in shorter : Len(r) = n - 1}, x \in S}

\* `${sourceLanguage}:${targetLanguage}:${text}`
GetCacheKey(text, sourceLanguage, targetLanguage) ==
  sourceLanguage \o ":" \o targetLanguage \o ":" \o text

\* response.data[i].translations[0].text for a request the provider serves
ProviderAnswer(text, targetLanguage) ==
  IF text \in providerEmpty THEN "" ELSE ProviderText(text, targetLanguage)

CacheIndex(cache, key) ==
  IF \E i \in 1..Len(cache) : cache[i].key = key
  THEN CHOOSE i \in 1..Len(cache) : cache[i].key = key
  ELSE 0

\* translationCache.has(key) with Date.now() - timestamp < CACHE_TTL
CacheFresh(cache, key) ==
  /\ CacheIndex(cache, key) # 0
  /\ now - cache[CacheIndex(cache, key)].timestamp < CACHE_TTL

CacheResult(cache, key) == cache[CacheIndex(cache, key)].result

\* translationCache.delete(key)
CacheDelete(cache, key) == SelectSeq(cache, LAMBDA e : e.key # key)

\* translationCache.set(key, {result, timestamp: Date.now()}): an existing
\* key keeps its place in the Map's order
CacheSet(cache, key, result) ==
  LET e == [key |-> key, result |-> result, timestamp |-> now]
  IN IF CacheIndex(cache, key) # 0
     THEN [cache EXCEPT ![CacheIndex(cache, key)] = e]
     ELSE Append(cache, e)

\* the entries in the order entries.sort((a, b) => a.timestamp - b.timestamp)
\* visits them, with the first n removed
RECURSIVE RemoveOldest(_, _)
RemoveOldest(cache, n) ==
  IF n = 0 \/ cache = <<>> THEN cache
  ELSE LET i == CHOOSE j \in 1..Len(cache) :
                  \A k \in 1..Len(cache) :
                     \/ cache[j].timestamp < cache[k].timestamp
                     \/ (cache[j].timestamp = cache[k].timestamp /\ j <= k)
       IN RemoveOldest(RemoveAt(cache, i), n - 1)

\* Math.ceil(CACHE_MAX_SIZE * 0.1)
RemoveCount == (CACHE_MAX_SIZE + 9) \div 10

EnsureCacheSize(cache) ==
  IF Len(cache) > CACHE_MAX_SIZE THEN RemoveOldest(cache, RemoveCount) ELSE cache

\* validateTranslationRequest: the text to return at once, or "translate"
NoSkip == "<translate>"
ValidateTranslationRequest(text, sourceLanguage, targetLanguage) ==
  IF sourceLanguage = targetLanguage THEN text
  ELSE IF IsBlank(text) THEN text
  ELSE NoSkip

NewCall(kind, texts, sourceLanguage, targetLanguage) ==
  [kind |-> kind, texts |-> texts, source |-> sourceLanguage,
   target |-> targetLanguage, pc |-> "entry", result |-> <<>>, reqs |-> 0,
   todo |-> <<>>, indices |-> <<>>, cacheResults |-> <<>>, results |-> <<>>,
   pos |-> 1]

Request(c, texts, h) ==
  [call |-> c, texts |-> texts, source |-> h.source, target |-> h.target,
   at |-> now, answer |-> "pending"]

\* translateText from its first line to its return, its throw, or its await
\* of translatorClient.post: [h: the call, cache, post: the texts requested]
TextEnter(h, cache) ==
  LET text == h.texts[1]
      key == GetCacheKey(text, h.source, h.target)
      skip == ValidateTranslationRequest(text, h.source, h.target)
  IN IF ~configured
     THEN [h |-> [h EXCEPT !.pc = "thrown"], cache |-> cache, post |-> <<>>]
     ELSE IF skip # NoSkip
     THEN [h |-> [h EXCEPT !.pc = "returned", !.result = <<skip>>],
           cache |-> cache, post |-> <<>>]
     ELSE IF CacheFresh(cache, key)
     THEN [h |-> [h EXCEPT !.pc = "returned", !.result = <<CacheResult(cache, key)>>],
           cache |-> cache, post |-> <<>>]
     ELSE [h |-> [h EXCEPT !.pc = "post", !.reqs = @ + 1],
           cache |-> CacheDelete(cache, key), post |-> <<text>>]

\* texts.forEach of translateBatch from index i on
RECURSIVE BatchScan(_, _, _)
BatchScan(h, cache, i) ==
  IF i > Len(h.texts) THEN [h |-> h, cache |-> cache]
  ELSE LET text == h.texts[i]
           key == GetCacheKey(text, h.source, h.target)
       IN IF IsBlank(text)
          THEN BatchScan([h EXCEPT !.cacheResults = (i :> text) @@ @], cache, i + 1)
          ELSE IF CacheFresh(cache, key)
          THEN BatchScan([h EXCEPT !.cacheResults = (i :> CacheResult(cache, key)) @@ @],
                         cache, i + 1)
          ELSE BatchScan([h EXCEPT !.todo = Append(@, text), !.indices = Append(@, i)],
                         CacheDelete(cache, key), i + 1)

\* data.slice(i, i + MAX_BATCH_SIZE)
Chunk(todo, pos) ==
  SubSeq(todo, pos, IF pos + MAX_BATCH_SIZE - 1 < Len(todo)
                    THEN pos + MAX_BATCH_SIZE - 1 ELSE Len(todo))

\* the array [...cacheResults] of a sparse cacheResults: its length is the
\* highest index set plus one, the holes read as undefined
SpreadSparse(cacheResults) ==
  LET top == IF DOMAIN cacheResults = {} THEN 0
             ELSE CHOOSE i \in DOMAIN cacheResults : \A j \in DOMAIN cacheResults : j <= i
  IN [i \in 1..top |-> IF i \in DOMAIN cacheResults THEN cacheResults[i] ELSE Undefined]

\* finalResults[originalIndex] = value, extending the array where needed
ArraySet(arr, i, value) ==
  [j \in 1..(IF i > Len(arr) THEN i ELSE Len(arr)) |->
     IF j = i THEN value ELSE IF j <= Len(arr) THEN arr[j] ELSE Undefined]

\* indices.forEach((originalIndex, resultIndex) => ...) from resultIndex k on,
\* each result appended in arrival order instead of at its index
RECURSIVE SpliceAppending(_, _, _, _)
SpliceAppending(final, indices, results, k) ==
  IF k > Len(indices) THEN final
  ELSE SpliceAppending(Append(final, results[k]), indices, results, k + 1)

RECURSIVE Splice(_, _, _, _)
Splice(final, indices, results, k) ==
  IF k > Len(indices) THEN final
  ELSE Splice(ArraySet(final, indices[k],
                       IF k <= Len(results) THEN results[k] ELSE Undefined),
              indices, results, k + 1)

\* translateBatch from its first line to its return, its throw, or its await
\* of the first translatorClient.post
BatchEnter(h, cache) ==
  IF ~configured
  THEN [h |-> [h EXCEPT !.pc = "thrown"], cache |-> cache, post |-> <<>>]
  ELSE IF h.source = h.target
  THEN [h |-> [h EXCEPT !.pc = "returned", !.result = h.texts],
        cache |-> cache, post |-> <<>>]
  ELSE LET fresh == [h EXCEPT !.todo = <<>>, !.indices = <<>>, !.cacheResults = <<>>,
                              !.results = <<>>, !.pos = 1]
           sc == BatchScan(fresh, cache, 1)
       IN IF sc.h.todo = <<>>
          THEN [h |-> [sc.h EXCEPT !.pc = "returned",
                                   !.result = SpreadSparse(sc.h.cacheResults)],
                cache |-> sc.cache, post |-> <<>>]
          ELSE [h |-> [sc.h EXCEPT !.pc = "post", !.reqs = @ + 1],
                cache |-> sc.cache, post |-> Chunk(sc.h.todo, 1)]

Enter(h, cache) == IF h.kind = "text" THEN TextEnter(h, cache) ELSE BatchEnter(h, cache)

\* a call of translateText or translateBatch arrives and runs to its first await
StartCall(kind, texts, sourceLanguage, targetLanguage) ==
  /\ Len(calls) < MaxCalls
  /\ LET c == Len(calls) + 1
         e == Enter(NewCall(kind, texts, sourceLanguage, targetLanguage),
                    translationCache)
     IN /\ calls' = Append(calls, e.h)
        /\ translationCache' = e.cache
        /\ requests' = IF e.post = <<>> THEN requests
                       ELSE Append(requests, Request(c, e.post, e.h))
  /\ UNCHANGED <<dirLang, dirStatus, sockets, users, rooms, sends, chats, inbox,
                 lastReason, restCount, audios, configured, providerEmpty, now, stt, pipe,
                 batchRun, migration,
                 tts, rtc>>

TranslateTextCall(text, sourceLanguage, targetLanguage) ==
  StartCall("text", <<text>>, sourceLanguage, targetLanguage)

TranslateBatchCall(texts, sourceLanguage, targetLanguage) ==
  StartCall("batch", texts, sourceLanguage, targetLanguage)

\* the pending request of call c
PendingRequest(c) ==
  CHOOSE r \in 1..Len(requests) : requests[r].call = c /\ requests[r].answer = "pending"

RECURSIVE CacheSetAll(_, _, _, _)
CacheSetAll(cache, texts, h, k) ==
  IF k > Len(texts) THEN cache
  ELSE CacheSetAll(CacheSet(cache, GetCacheKey(texts[k], h.source, h.target),
                            ProviderAnswer(texts[k], h.target)),
                   texts, h, k + 1)

\* translateText resumes with the provider's answer to its request
TextAfterPost(h, cache, answer) ==
  LET result == ProviderAnswer(h.texts[1], h.target)
  IN IF answer = "429" THEN [h |-> [h EXCEPT !.pc = "sleep"], cache |-> cache, post |-> <<>>]
     ELSE IF answer = "error" \/ result = ""
     THEN [h |-> [h EXCEPT !.pc = "thrown"], cache |-> cache, post |-> <<>>]
     ELSE [h |-> [h EXCEPT !.pc = "returned", !.result = <<result>>],
           cache |-> EnsureCacheSize(
                       CacheSet(cache, GetCacheKey(h.texts[1], h.source, h.target), result)),
           post |-> <<>>]

\* the array translateBatch returns once every chunk was answered
FinalResultsAppending(h) ==
  SpliceAppending(SpreadSparse(h.cacheResults), h.indices, h.results, 1)

FinalResults(h) == Splice(SpreadSparse(h.cacheResults), h.indices, h.results, 1)

\* translateBatch resumes with the provider's answer to the chunk at h.pos
BatchAfterPost(h, cache, answer) ==
  LET chunk == Chunk(h.todo, h.pos)
      translations == [k \in 1..Len(chunk) |-> ProviderAnswer(chunk[k], h.target)]
      h1 == [h EXCEPT !.results = @ \o translations, !.pos = @ + MAX_BATCH_SIZE]
      cache1 == CacheSetAll(cache, chunk, h, 1)
  IN IF answer = "429" THEN [h |-> [h EXCEPT !.pc = "sleep"], cache |-> cache, post |-> <<>>]
     ELSE IF answer = "error"
     THEN [h |-> [h EXCEPT !.pc = "thrown"], cache |-> cache, post |-> <<>>]
     ELSE IF h1.pos <= Len(h1.todo)
     THEN [h |-> [h1 EXCEPT !.reqs = @ + 1], cache |-> cache1,
           post |-> Chunk(h1.todo, h1.pos)]
     ELSE [h |-> [h1 EXCEPT !.pc = "returned", !.result = FinalResults(h1)],
           cache |-> EnsureCacheSize(cache1), post |-> <<>>]

\* the provider answers the pending request of call c and the call resumes
PostDone(c, answer) ==
  /\ c \in 1..Len(calls)
  /\ calls[c].pc = "post"
  /\ LET r == PendingRequest(c)
         e == IF calls[c].kind = "text"
              THEN TextAfterPost(calls[c], translationCache, answer)
              ELSE BatchAfterPost(calls[c], translationCache, answer)
         answered == [requests EXCEPT ![r].answer = answer]
     IN /\ calls' = [calls EXCEPT ![c] = e.h]
        /\ translationCache' = e.cache
        /\ requests' = IF e.post = <<>> THEN answered
                       ELSE Append(answered, Request(c, e.post, e.h))
  /\ UNCHANGED <<dirLang, dirStatus, sockets, users, rooms, sends, chats, inbox,
                 lastReason, restCount, audios, configured, providerEmpty, now, stt, pipe,
                 batchRun, migration,
                 tts, rtc>>

\* the retry-after wait is over: return translateText(...) / translateBatch(...)
RetryAfter(c) ==
  /\ c \in 1..Len(calls)
  /\ calls[c].pc = "sleep"
  /\ calls[c].reqs < MaxRequests
  /\ LET e == Enter(calls[c], translationCache)
     IN /\ calls' = [calls EXCEPT ![c] = e.h]
        /\ translationCache' = e.cache
        /\ requests' = IF e.post = <<>> THEN requests
                       ELSE Append(requests, Request(c, e.post, e.h))
  /\ UNCHANGED <<dirLang, dirStatus, sockets, users, rooms, sends, chats, inbox,
                 lastReason, restCount, audios, configured, providerEmpty, now, stt, pipe,
                 batchRun, migration,
                 tts, rtc>>

\* Date.now() advances
Tick ==
  /\ now < MaxClock
  /\ now' = now + 1
  /\ UNCHANGED <<dirLang, dirStatus, sockets, users, rooms, sends, chats, inbox,
                 lastReason, restCount, audios, configured, providerEmpty,
                 translationCache, calls, requests, stt, pipe, batchRun, migration,
                 tts, rtc>>

\* cleanCache, run by setInterval
CleanCache ==
  /\ \E i \in 1..Len(translationCache) : now - translationCache[i].timestamp > CACHE_TTL
  /\ translationCache' =
       SelectSeq(translationCache, LAMBDA e : ~(now - e.timestamp > CACHE_TTL))
  /\ UNCHANGED <<dirLang, dirStatus, sockets, users, rooms, sends, chats, inbox,
                 lastReason, restCount, audios, configured, providerEmpty, now,
                 calls, requests, stt, pipe, batchRun, migration,
                 tts, rtc>>

\* ----------------------------------------- utils/speechToTextModule.js

MaxRetriesArg == 5        \* largest maxRetries passed to speechToText
MaxWords == 1             \* texts recognized during one attempt

\* the fields of one recognition attempt: finalText (the recognized texts, in
\* order), recognitionStarted, timeoutHandle
FreshAttempt(st) ==
  [st EXCEPT !.finalText = <<>>, !.recognitionStarted = FALSE, !.timer = "none",
             !.stopRequested = FALSE]

\* Math.min(1000 * Math.pow(2, attempt), 8000) without the cap
GetBackoffDelayUncapped(attempt) == 1000 * 2^attempt

GetBackoffDelay(attempt) ==
  IF 1000 * 2^attempt < 8000 THEN 1000 * 2^attempt ELSE 8000

\* the catch block of the retry loop
Catch(st, error) ==
  LET st1 == [st EXCEPT !.lastError = error, !.errors = Append(@, error),
                        !.attempts = @ + 1]
  IN IF st1.attempts < st1.maxRetries
     THEN [st1 EXCEPT !.pc = "backoff",
                      !.waits = Append(@, GetBackoffDelay(st1.attempts))]
     ELSE [st1 EXCEPT !.pc = "thrown", !.outcome = <<st1.lastError>>]

\* new sdk.SpeechRecognizer(speechConfig, audioConfig): one more recognizer
\* of this call, in use until something ends its recognition
NewRecognizer(st) == [st EXCEPT !.recognizers = Append(@, "active")]

\* recognizer.stopContinuousRecognitionAsync() on the recognizer of the
\* running attempt (the module never calls recognizer.close())
StopRecognizer(st) ==
  [st EXCEPT !.recognizers = [i \in 1..Len(@) |-> IF i = Len(@) THEN "stopped" ELSE @[i]]]

\* a loop body that opens the recognizer before it looks at the buffer
LoopEnterUnvalidated(st) ==
  IF ~(st.attempts < st.maxRetries)
  THEN [st EXCEPT !.pc = "returned", !.outcome = <<Undefined>>]
  ELSE LET st1 == NewRecognizer([st EXCEPT !.tries = @ + 1, !.providerCalls = @ + 1])
       IN IF ~st1.valid THEN Catch(st1, "Invalid audio format")
          ELSE [FreshAttempt(st1) EXCEPT !.pc = "recognizing"]

\* the while condition and the body of the loop up to the await of the
\* recognition promise
LoopEnter(st) ==
  IF ~(st.attempts < st.maxRetries)
  THEN [st EXCEPT !.pc = "returned", !.outcome = <<Undefined>>]
  ELSE LET st1 == [st EXCEPT !.tries = @ + 1]
       IN IF ~st1.valid THEN Catch(st1, "Invalid audio format")
          ELSE [NewRecognizer(FreshAttempt(st1)) EXCEPT !.pc = "recognizing",
                                                         !.providerCalls = @ + 1]

SttUnchanged ==
  UNCHANGED <<dirLang, dirStatus, sockets, users, rooms, sends, chats, inbox,
              lastReason, restCount, audios, configured, providerEmpty,
              translationCache, now, calls, requests, pipe, batchRun, migration,
                 tts, rtc>>

\* speechToText(audioData, sourceLanguage, maxRetries) is called; valid is
\* isValidWavFormat(audioData)
SpeechToText(valid, maxRetries) ==
  /\ stt.pc = "idle"
  /\ stt' = LoopEnter([stt EXCEPT !.valid = valid, !.maxRetries = maxRetries])
  /\ SttUnchanged

\* the backoff wait is over: the loop goes round
BackoffDone ==
  /\ stt.pc = "backoff"
  /\ stt' = LoopEnter(stt)
  /\ SttUnchanged

\* startContinuousRecognitionAsync calls back with success: the timer is set
StartOk ==
  /\ stt.pc = "recognizing" /\ stt.timer = "none"
  /\ stt' = [stt EXCEPT !.timer = "armed"]
  /\ SttUnchanged

\* startContinuousRecognitionAsync calls back with an error: reject(error)
StartFails ==
  /\ stt.pc = "recognizing" /\ stt.timer = "none"
  /\ stt' = Catch(stt, "Could not start recognition")
  /\ SttUnchanged

\* recognizer.sessionStarted
SessionStarted ==
  /\ stt.pc = "recognizing" /\ ~stt.recognitionStarted
  /\ stt' = [stt EXCEPT !.recognitionStarted = TRUE]
  /\ SttUnchanged

\* recognizer.recognized with RecognizedSpeech and a non-empty text
Recognized ==
  /\ stt.pc = "recognizing" /\ Len(stt.finalText) < MaxWords
  /\ stt' = [stt EXCEPT !.finalText = Append(@, "word")]
  /\ SttUnchanged

\* recognizer.canceled; isError: event.reason is CancellationReason.Error,
\* shouldRetry: the error code is one of those listed
Canceled(isError, shouldRetry) ==
  /\ stt.pc = "recognizing"
  /\ stt' = StopRecognizer(
            IF isError
            THEN IF shouldRetry /\ stt.attempts < stt.maxRetries - 1
                 THEN Catch(stt, "Recognition error")
                 ELSE IF stt.finalText # <<>>
                      THEN [stt EXCEPT !.pc = "returned", !.outcome = stt.finalText]
                      ELSE Catch(stt, "Recognition error")
            ELSE [stt EXCEPT !.pc = "returned", !.outcome = stt.finalText])
  /\ SttUnchanged

\* recognizer.sessionStopped: resolve(finalText.trim())
SessionStopped ==
  /\ stt.pc = "recognizing"
  /\ stt' = StopRecognizer([stt EXCEPT !.pc = "returned", !.outcome = stt.finalText])
  /\ SttUnchanged

\* the 15 s timer set by the start callback fires
TimerFires ==
  /\ stt.pc = "recognizing" /\ stt.timer = "armed"
  /\ stt' = LET stop == stt.finalText = <<>> /\ stt.recognitionStarted
                st1 == [stt EXCEPT !.timer = "fired", !.stopRequested = stop]
            IN IF stop THEN StopRecognizer(st1) ELSE st1
  /\ SttUnchanged

\* the session ends because recognizer.stopContinuousRecognitionAsync() was called
StopAcknowledged == stt.stopRequested /\ SessionStopped

\* ------------------------------------------- utils/speechTranslator.js

MaxAttempts == 2          \* performTextToSpeech: maxAttempts
TtsMaxRetries == 3        \* textToSpeech: maxRetries = 3
SttMaxRetries == 3        \* speechToText: maxRetries = 3
CONCURRENCY_LIMIT == 5    \* batchTranslateSpeech: ids synthesized together
WAV_SAMPLE_RATE == 16000
WAV_NUM_CHANNELS == 1
WAV_BITS_PER_SAMPLE == 16
WAV_BYTE_RATE == (WAV_SAMPLE_RATE * WAV_NUM_CHANNELS * WAV_BITS_PER_SAMPLE) \div 8
WAV_BLOCK_ALIGN == (WAV_NUM_CHANNELS * WAV_BITS_PER_SAMPLE) \div 8

\* A Buffer is the sequence of its 32-bit little-endian words.
RIFF == 1179011410        \* the bytes 'RIFF'
WAVE == 1163280727        \* the bytes 'WAVE'
FMT == 544501094          \* the bytes 'fmt '
DATA == 1635017060        \* the bytes 'data'

ByteLength(buffer) == 4 * Len(buffer)

\* writeUInt16LE(lo, k) followed by writeUInt16LE(hi, k + 2)
Uint16Pair(lo, hi) == lo + 65536 * hi

\* the 44 bytes validateAudioFormat writes before length bytes of samples
WavHeader(length) ==
  <<RIFF, 36 + length, WAVE, FMT, 16,
    Uint16Pair(1, WAV_NUM_CHANNELS), WAV_SAMPLE_RATE, WAV_BYTE_RATE,
    Uint16Pair(WAV_BLOCK_ALIGN, WAV_BITS_PER_SAMPLE), DATA, length>>

\* a header check that never finds the marker
HasRiffHeaderNever(buffer) == FALSE

\* buffer.slice(0, 4).toString('ascii') === VALID_WAV_HEADER
HasRiffHeader(buffer) == Len(buffer) >= 1 /\ buffer[1] = RIFF

ValidateAudioFormat(audioBuffer) ==
  IF HasRiffHeader(audioBuffer) THEN audioBuffer
  ELSE WavHeader(ByteLength(audioBuffer)) \o audioBuffer

\* what the synthesis provider leaves in the output file: a WAV file, samples
\* without a container, a file shorter than a header; or the attempt fails
\* (the provider reports an error, the file is empty, the 30 s timer fires)
SynthOutcomes == {"wav", "raw", "short", "error", "empty", "timeout"}
WavFile == WavHeader(8) \o <<0, 0>>
RawSamples == [i \in 1..11 |-> 0]
ShortSamples == <<0>>
SynthAudio(outcome) ==
  CASE outcome = "wav" -> WavFile
    [] outcome = "raw" -> RawSamples
    [] OTHER -> ShortSamples

\* the audioData argument: nothing, a value that is no Buffer, ArrayBuffer or
\* string, fewer than 100 bytes, 100 bytes or more that are no WAV file, a
\* WAV file
AudioKinds == {"missing", "object", "small", "corrupt", "wav"}
NoBuffer == "null"
NormalizeAudioData(audioData) ==
  IF audioData \in {"missing", "object"} THEN NoBuffer ELSE audioData

\* language.toLowerCase().split('-')[0], '' for a missing language
LangTags == {"", "en", "EN-us", "fr", "fr-FR"}
NormalizeLanguage(language) ==
  CASE language = "EN-us" -> "en"
    [] language = "fr-FR" -> "fr"
    [] OTHER -> language

\* normalizeLanguage(language) || 'en'
NormalizedOrEn(language) ==
  IF NormalizeLanguage(language) = "" THEN "en" ELSE NormalizeLanguage(language)

\* the comparison made on the tags as they were passed
IsSameLanguageRaw(p) == p.sourceLanguage = p.targetLanguage

\* isSameLanguage = normalizedSourceLang === normalizedTargetLang
IsSameLanguage(p) == p.source = p.target

\* finalText: every recognized text followed by ' ', trimmed at the end
RECURSIVE JoinWords(_)
JoinWords(words) ==
  IF words = <<>> THEN ""
  ELSE IF Len(words) = 1 THEN words[1]
  ELSE words[1] \o " " \o JoinWords(Tail(words))

\* performSpeechToText once speechToText settled
PerformSpeechToText(st) ==
  IF st.pc = "thrown"
  THEN [text |-> "", error |-> "Speech-to-text failed: " \o st.lastError]
  ELSE IF st.outcome = <<Undefined>> \/ JoinWords(st.outcome) = ""
  THEN [text |-> "", error |-> "Speech-to-text returned invalid result"]
  ELSE IF IsBlank(JoinWords(st.outcome))
  THEN [text |-> "", error |-> "No speech detected or empty transcription"]
  ELSE [text |-> JoinWords(st.outcome), error |-> NoError]

\* translateSpeech returns
Return(p, result) == [p EXCEPT !.pc = "done", !.result = result]

\* the catch block of performTextToSpeech that hands back the audio of the
\* failed attempt together with the error
PerformCatchWithAudio(p) ==
  LET q == [p EXCEPT !.attempt = @ + 1]
  IN IF q.attempt < MaxAttempts
     THEN [q EXCEPT !.pc = "ttsPause"]
     ELSE Return(q, Result(q.original, q.translated, WavFile,
                           "Failed to convert text to speech after 2 attempts"))

\* the catch block of performTextToSpeech and the end of its loop: wait
\* 2000 ms before the next attempt, or give up with audio: null and an error,
\* which translateSpeech returns with the texts
PerformCatch(p) ==
  LET q == [p EXCEPT !.attempt = @ + 1]
  IN IF q.attempt < MaxAttempts
     THEN [q EXCEPT !.pc = "ttsPause"]
     ELSE Return(q, Result(q.original, q.translated, NoAudio,
                           "Failed to convert text to speech after 2 attempts"))

\* the catch block of textToSpeech: back off, or throw to performTextToSpeech
TtsCatch(p) ==
  LET q == [p EXCEPT !.attempts = @ + 1]
  IN IF q.attempts < TtsMaxRetries
     THEN [q EXCEPT !.pc = "ttsBackoff"]
     ELSE PerformCatch(q)

\* textToSpeech: the while condition and the loop body up to the await of the
\* synthesis promise; without credentials the body throws before any request
TtsLoop(p) ==
  IF ~(p.attempts < TtsMaxRetries) THEN PerformCatch(p)
  ELSE IF ~p.creds THEN TtsCatch(p)
  ELSE [p EXCEPT !.synth = @ + 1, !.pc = "ttsSynth"]

\* textToSpeech(text, language) is called: the input check, then the
\* connection test, which is a synthesis request of its own for 'Test'
TextToSpeech(p) ==
  LET q == [p EXCEPT !.calls = @ + 1, !.attempts = 0]
  IN IF IsBlank(q.translated) THEN PerformCatch(q)
     ELSE IF q.creds THEN [q EXCEPT !.tests = @ + 1, !.pc = "ttsTest"]
     ELSE TtsLoop(q)

\* performTextToSpeech(translatedText, normalizedTargetLang) is called
PerformTextToSpeech(p) ==
  TextToSpeech([p EXCEPT !.stages = Append(@, "SYNTHESIZE"), !.attempt = 0])

PipeUnchanged ==
  UNCHANGED <<dirLang, dirStatus, sockets, users, rooms, sends, chats, inbox,
              lastReason, restCount, audios, configured, providerEmpty,
              translationCache, now, calls, requests, batchRun, migration,
                 tts, rtc>>

\* translateSpeech(audioData, sourceLanguage, targetLanguage) is called, by
\* translateAudio handler owner or (owner 0) by another caller; creds:
\* AZURE_SPEECH_KEY and AZURE_SPEECH_REGION are set
TranslateSpeech(owner, audioData, sourceLanguage, targetLanguage, creds) ==
  /\ \/ pipe.pc = "idle"
     \/ pipe.pc = "done" /\ pipe.owner # 0 /\ audios[pipe.owner].pc = "done"
  /\ \/ owner = 0
     \/ owner \in 1..Len(audios) /\ audios[owner].pc = "translateSpeech"
  /\ LET p == [PipeIdle EXCEPT !.owner = owner, !.audioData = audioData,
                               !.sourceLanguage = sourceLanguage,
                               !.targetLanguage = targetLanguage, !.creds = creds]
     IN pipe' = IF audioData = "missing"
                THEN Return(p, Result("", "", NoAudio, "Invalid or missing audio data"))
                ELSE [p EXCEPT !.pc = "normalize"]
  /\ stt' = stt
  /\ PipeUnchanged

\* after the await of the normalized inputs: the fast-fail checks, then
\* performSpeechToText calls speechToText
TranslateSpeechNormalized ==
  /\ pipe.pc = "normalize"
  /\ LET audioBuffer == NormalizeAudioData(pipe.audioData)
         p == [pipe EXCEPT !.source = NormalizedOrEn(pipe.sourceLanguage),
                           !.target = NormalizedOrEn(pipe.targetLanguage)]
     IN IF audioBuffer = NoBuffer
        THEN /\ pipe' = Return(p, Result("", "", NoAudio, "Invalid or missing audio data"))
             /\ stt' = stt
        ELSE IF audioBuffer = "small"
        THEN /\ pipe' = Return(p, Result("", "", NoAudio, "Audio data too small or corrupted"))
             /\ stt' = stt
        ELSE /\ pipe' = [p EXCEPT !.pc = "transcribe", !.stages = Append(@, "TRANSCRIBE")]
             /\ stt' = LoopEnter([SttIdle EXCEPT !.valid = (audioBuffer = "wav"),
                                                 !.maxRetries = SttMaxRetries])
  /\ PipeUnchanged

\* speechToText settled: performSpeechToText returns, translateSpeech goes on
\* with the translation or, for equal languages, with the synthesis
SpeechToTextSettled ==
  /\ pipe.pc = "transcribe"
  /\ stt.pc \in {"returned", "thrown"}
  /\ LET r == PerformSpeechToText(stt)
         p == [pipe EXCEPT !.original = r.text, !.translated = r.text]
     IN pipe' = IF r.error # NoError
                THEN Return(pipe, Result("", "", NoAudio, r.error))
                ELSE IF r.text = ""
                THEN Return(pipe, Result("", "", NoAudio,
                                         "No speech detected or empty transcription"))
                ELSE IF IsSameLanguage(p) THEN PerformTextToSpeech(p)
                ELSE [p EXCEPT !.pc = "translate", !.stages = Append(@, "TRANSLATE")]
  /\ stt' = stt
  /\ PipeUnchanged

\* what translateText or translateBatch gives performTranslation: a text, an
\* empty text, a rejection
TranslationOutcomes == {"ok", "empty", "throws"}

\* performTranslation that hands the original text on when the provider fails
PerformTranslationDoneLenient(outcome) ==
  /\ pipe.pc = "translate"
  /\ pipe' = IF outcome = "ok"
             THEN PerformTextToSpeech([pipe EXCEPT !.translated =
                                         ProviderText(pipe.original, pipe.target)])
             ELSE PerformTextToSpeech([pipe EXCEPT !.translationError =
                                         "Translation failed: provider"])
  /\ stt' = stt
  /\ PipeUnchanged

\* performTranslation returns: on an error translateSpeech returns the
\* original text, an empty translation and the error
PerformTranslationDone(outcome) ==
  /\ pipe.pc = "translate"
  /\ pipe' = CASE outcome = "throws" ->
                    Return([pipe EXCEPT !.translationError = "Translation failed: provider"],
                           Result(pipe.original, "", NoAudio,
                                  "Translation failed: provider"))
               [] outcome = "empty" ->
                    Return([pipe EXCEPT !.translationError =
                                          "Translation failed - empty result"],
                           Result(pipe.original, "", NoAudio,
                                  "Translation failed - empty result"))
               [] OTHER ->
                    PerformTextToSpeech([pipe EXCEPT !.translated =
                                           ProviderText(pipe.original, pipe.target)])
  /\ stt' = stt
  /\ PipeUnchanged

\* testAzureSpeechConnection settled; its outcome is only logged
ConnectionTestDone ==
  /\ pipe.pc = "ttsTest"
  /\ pipe' = TtsLoop(pipe)
  /\ stt' = stt
  /\ PipeUnchanged

\* the synthesis promise settled: a rejection goes to the catch block of
\* textToSpeech; audio goes back to performTextToSpeech, which rejects fewer
\* than 44 bytes and repairs a buffer that does not start with 'RIFF'
SynthesisDone(outcome) ==
  /\ pipe.pc = "ttsSynth"
  /\ pipe' = IF outcome \in {"error", "empty", "timeout"} THEN TtsCatch(pipe)
             ELSE LET audio == SynthAudio(outcome)
                      p == [pipe EXCEPT !.provided = audio]
                  IN IF ByteLength(audio) < 44 THEN PerformCatch(p)
                     ELSE Return([p EXCEPT !.repaired = ~HasRiffHeader(audio)],
                                 Result(p.original, p.translated,
                                        IF ~HasRiffHeader(audio)
                                        THEN ValidateAudioFormat(audio) ELSE audio,
                                        NoError))
  /\ stt' = stt
  /\ PipeUnchanged

\* the backoff wait of textToSpeech is over
TtsBackoffDone ==
  /\ pipe.pc = "ttsBackoff"
  /\ pipe' = TtsLoop(pipe)
  /\ stt' = stt
  /\ PipeUnchanged

\* the 2000 ms wait of performTextToSpeech is over: textToSpeech is called again
TtsPauseDone ==
  /\ pipe.pc = "ttsPause"
  /\ pipe' = TextToSpeech(pipe)
  /\ stt' = stt
  /\ PipeUnchanged

\* what translateSpeech can resolve with
SpeechResults ==
  { Result("hi", ProviderText("hi", "fr"), WavFile, NoError),
    Result("", "", NoAudio, "Speech-to-text failed: Recognition error"),
    Result("hi", "", NoAudio, "Translation failed: provider"),
    Result("hi", ProviderText("hi", "fr"), NoAudio,
           "Failed to convert text to speech after 2 attempts") }

\* the translateAudio listener resumes with the result of its translateSpeech call
TranslateSpeechReturns(a) ==
  /\ pipe.pc = "done"
  /\ pipe.owner = a
  /\ TranslateSpeechDone(a, pipe.result)

\* ------------------------------ speechTranslator.js: batchTranslateSpeech

MaxItems == 2             \* longest audioItems array passed during a run

\* the labels of the items, distinct, by position
Labels == <<"a", "b", "c", "d">>

\* the audioItems arrays: every item has its label and its audio data
BatchInputs ==
  UNION { { [i \in 1..n |-> [id |-> Labels[i], audioData |-> kinds[i]]] :
            kinds \in [1..n -> AudioKinds \ {"object"}] } : n \in 0..MaxItems }

\* a JS Map as the sequence of its entries in insertion order
MapHas(map, key) == \E i \in 1..Len(map) : map[i].key = key
MapGet(map, key) == map[CHOOSE i \in 1..Len(map) : map[i].key = key].value
MapSet(map, key, value) ==
  IF MapHas(map, key)
  THEN [i \in 1..Len(map) |-> IF map[i].key = key
                              THEN [key |-> key, value |-> value] ELSE map[i]]
  ELSE Append(map, [key |-> key, value |-> value])

RECURSIVE MapSetAll(_, _)
MapSetAll(map, entries) ==
  IF entries = <<>> THEN map
  ELSE MapSetAll(MapSet(map, Head(entries).key, Head(entries).value), Tail(entries))

\* array.map(f) and array.filter(p) on sequences
MapSeq(seq, F(_)) == [i \in 1..Len(seq) |-> F(seq[i])]

\* what performSpeechToText resolves with for one item
Transcripts ==
  { [text |-> "hi", error |-> NoError], [text |-> "yo", error |-> NoError],
    [text |-> "", error |-> "Speech-to-text failed: Recognition error"] }

\* what performTextToSpeech resolves with for one id
Syntheses ==
  { [audio |-> WavFile, error |-> NoError],
    [audio |-> NoAudio, error |-> "Failed to convert text to speech after 2 attempts"] }

BatchReturn(b, results) == [b EXCEPT !.pc = "done", !.results = results]

BatchUnchanged ==
  UNCHANGED <<dirLang, dirStatus, sockets, users, rooms, sends, chats, inbox,
              lastReason, restCount, audios, configured, providerEmpty,
              translationCache, now, calls, requests, stt, pipe, migration,
              tts, rtc>>

\* batchTranslateSpeech(audioItems, sourceLanguage, targetLanguage) is called
BatchTranslateSpeech(audioItems, sourceLanguage, targetLanguage) ==
  /\ batchRun.pc = "idle"
  /\ batchRun' = IF Len(audioItems) = 0
                 THEN [batchRun EXCEPT !.pc = "thrown"]
                 ELSE [batchRun EXCEPT !.pc = "normalize", !.items = audioItems,
                                       !.source = NormalizedOrEn(sourceLanguage),
                                       !.target = NormalizedOrEn(targetLanguage)]
  /\ BatchUnchanged

\* the buffers are normalized: the items with a buffer of 100 bytes or more
\* go on, the others get their error result
BatchNormalized ==
  /\ batchRun.pc = "normalize"
  /\ LET validAudioItems ==
           SelectSeq(batchRun.items,
                     LAMBDA item : NormalizeAudioData(item.audioData) \notin {NoBuffer, "small"})
         invalidResults ==
           MapSeq(SelectSeq(batchRun.items,
                            LAMBDA item : ~\E k \in 1..Len(validAudioItems) :
                                             validAudioItems[k].id = item.id),
                  LAMBDA item : [id |-> item.id,
                                 result |-> Result("", "", NoAudio, "Invalid audio data")])
         b == [batchRun EXCEPT !.valid = validAudioItems,
                               !.invalidResults = invalidResults]
     IN batchRun' = IF Len(validAudioItems) = 0
                    THEN BatchReturn(b, invalidResults)
                    ELSE [b EXCEPT !.pc = "transcribe"]
  /\ BatchUnchanged

\* translations in hand: translationMap is filled, the first ids go to the
\* synthesis
BatchAfterTranslation(b, translations) ==
  LET entries == [i \in 1..Len(b.validTranscriptions) |->
                    [key |-> MapGet(b.transcriptionMap, b.validTranscriptions[i]),
                     value |-> [original |-> b.validTranscriptions[i],
                                translated |-> translations[i]]]]
  IN [b EXCEPT !.translationMap = MapSetAll(<<>>, entries), !.pos = 0,
               !.pc = "synthesize"]

\* transcriptionMap.set(result.text, result.id)
TranscriptionEntry(result) == [key |-> result.text, value |-> result.id]

\* every performSpeechToText settled; transcripts[k] is what the k-th valid
\* item resolved with (a buffer that is no WAV file never yields a text)
BatchTranscribed(transcripts) ==
  /\ batchRun.pc = "transcribe"
  /\ DOMAIN transcripts = 1..Len(batchRun.valid)
  /\ \A k \in 1..Len(batchRun.valid) :
       batchRun.valid[k].audioData = "corrupt" => transcripts[k].error # NoError
  /\ LET transcriptionResults ==
           [k \in 1..Len(batchRun.valid) |->
              [id |-> batchRun.valid[k].id, text |-> transcripts[k].text,
               error |-> transcripts[k].error]]
         good == SelectSeq(transcriptionResults,
                           LAMBDA r : r.text # "" /\ r.error = NoError)
         failedTranscriptionResults ==
           MapSeq(SelectSeq(transcriptionResults,
                            LAMBDA r : r.text = "" \/ r.error # NoError),
                  LAMBDA r : [id |-> r.id,
                              result |-> Result(r.text, "", NoAudio,
                                                IF r.error # NoError THEN r.error
                                                ELSE "Transcription failed")])
         b == [batchRun EXCEPT
                 !.validTranscriptions = MapSeq(good, LAMBDA r : r.text),
                 !.transcriptionMap = MapSetAll(<<>>, MapSeq(good, TranscriptionEntry)),
                 !.failedTranscriptionResults = failedTranscriptionResults]
     IN batchRun' = IF Len(good) = 0
                    THEN BatchReturn(b, b.invalidResults \o failedTranscriptionResults)
                    ELSE IF b.source = b.target
                    THEN BatchAfterTranslation(b, b.validTranscriptions)
                    ELSE [b EXCEPT !.pc = "translate"]
  /\ BatchUnchanged

\* translateBatch settled: its translations, or one error result for every
\* valid transcription under the label transcriptionMap holds for its text
BatchTranslated(ok) ==
  /\ batchRun.pc = "translate"
  /\ batchRun' =
       IF ok
       THEN BatchAfterTranslation(batchRun,
              MapSeq(batchRun.validTranscriptions,
                     LAMBDA text : ProviderText(text, batchRun.target)))
       ELSE BatchReturn(batchRun,
              batchRun.invalidResults \o batchRun.failedTranscriptionResults \o
              MapSeq(batchRun.validTranscriptions,
                     LAMBDA original :
                       [id |-> MapGet(batchRun.transcriptionMap, original),
                        result |-> Result(original, "", NoAudio,
                                          "Translation failed: provider")]))
  /\ BatchUnchanged

\* Array.from(translationMap.keys())
BatchIds(b) == MapSeq(b.translationMap, LAMBDA e : e.key)

\* one processTTSBatch settled: syntheses[k] is what performTextToSpeech
\* resolved with for the k-th id of the slice; after the last slice the
\* results are compiled from translationMap and ttsResults
BatchSynthesized(syntheses) ==
  /\ batchRun.pc = "synthesize"
  /\ LET ids == BatchIds(batchRun)
         last == IF batchRun.pos + CONCURRENCY_LIMIT < Len(ids)
                 THEN batchRun.pos + CONCURRENCY_LIMIT ELSE Len(ids)
         slice == SubSeq(ids, batchRun.pos + 1, last)
         ttsResults ==
           MapSetAll(batchRun.ttsResults,
                     [k \in 1..Len(slice) |-> [key |-> slice[k], value |-> syntheses[k]]])
         successResults ==
           MapSeq(batchRun.translationMap,
                  LAMBDA e : [id |-> e.key,
                              result |-> Result(e.value.original, e.value.translated,
                                                MapGet(ttsResults, e.key).audio,
                                                MapGet(ttsResults, e.key).error)])
         b == [batchRun EXCEPT !.ttsResults = ttsResults,
                               !.pos = batchRun.pos + CONCURRENCY_LIMIT]
     IN /\ DOMAIN syntheses = 1..Len(slice)
        /\ batchRun' = IF b.pos < Len(ids) THEN b
                       ELSE BatchReturn(b, b.invalidResults \o
                                           b.failedTranscriptionResults \o
                                           successResults)
  /\ BatchUnchanged

\* ------------------------------------------------ migrateChatData script

MaxLegacy == 2            \* documents of the Chat collection the script runs over
MaxRuns == 2              \* runs of the script

\* A stored document is the function from the names of the fields it has to
\* their values; a legacy document lacks some fields of the schema.
Has(doc, field) == field \in DOMAIN doc

\* !doc[field]: the field is missing or empty
Falsy(doc, field) == ~Has(doc, field) \/ doc[field] = ""

\* doc[field] = value
SetField(doc, field, value) ==
  [f \in DOMAIN doc \cup {field} |-> IF f = field THEN value ELSE doc[f]]

Missing == "<missing>"
Doc(id, content, originalContent, originalLanguage, hasTranslations) ==
  LET all == [_id |-> id, content |-> content, originalContent |-> originalContent,
              originalLanguage |-> originalLanguage]
      fields == {f \in DOMAIN all : f = "_id" \/ all[f] # Missing}
      doc == [f \in fields |-> all[f]]
  IN IF hasTranslations THEN doc @@ [translations |-> <<>>] ELSE doc

\* the documents a collection written by earlier versions can hold
LegacyDocs(id) ==
  { Doc(id, c, oc, ol, t) : c \in {Missing, "hi"}, oc \in {Missing, "", "yo"},
                            ol \in {Missing, "fr"}, t \in BOOLEAN }

LegacyCollections ==
  UNION { {docs \in [1..n -> UNION {LegacyDocs(i) : i \in 1..n}] :
             \A i \in 1..n : docs[i]["_id"] = i} : n \in 1..MaxLegacy }

\* a query that selects every document
NeedsMigrationAlways(doc) == TRUE

\* { $or: [{ originalContent: { $exists: false } },
\*         { originalLanguage: { $exists: false } }] }
NeedsMigration(doc) == ~Has(doc, "originalContent") \/ ~Has(doc, "originalLanguage")

\* the assignments of the loop body
Migrated(message) ==
  LET m1 == IF Falsy(message, "originalContent") /\ ~Falsy(message, "content")
            THEN SetField(message, "originalContent", message.content) ELSE message
      m2 == IF Falsy(m1, "originalLanguage")
            THEN SetField(m1, "originalLanguage", "en") ELSE m1
  IN IF ~Has(m2, "translations") THEN SetField(m2, "translations", <<>>) ELSE m2

\* the schema's validation at save(): originalContent and content are required
Validates(doc) == ~Falsy(doc, "originalContent") /\ ~Falsy(doc, "content")

MigrationUnchanged ==
  UNCHANGED <<dirLang, dirStatus, sockets, users, rooms, sends, inbox,
              lastReason, restCount, audios, configured, providerEmpty,
              translationCache, now, calls, requests, stt, pipe, batchRun,
              tts, rtc>>

\* the script is started: Chat.find is issued
MigrateChatData ==
  /\ migration.pc \in {"idle", "done"}
  /\ migration.runs < MaxRuns
  /\ migration' = [migration EXCEPT !.pc = "find",
                     !.initial = IF migration.runs = 0 THEN chats ELSE @]
  /\ chats' = chats
  /\ MigrationUnchanged

\* Chat.find resolved with the documents the query selects
MigrateFound ==
  /\ migration.pc = "find"
  /\ migration' = [migration EXCEPT !.pc = "loop",
                     !.oldMessages = SelectSeq(chats, NeedsMigration)]
  /\ chats' = chats
  /\ MigrationUnchanged

\* one round of the loop: the assignments and message.save(), which writes
\* the document unless the validation or (ok false) the database rejects it
MigrateMessage(ok) ==
  /\ migration.pc = "loop"
  /\ migration.oldMessages # <<>>
  /\ LET message == Migrated(Head(migration.oldMessages))
         saved == ok /\ Validates(message)
     IN /\ chats' = IF saved THEN [chats EXCEPT ![message["_id"]] = message] ELSE chats
        /\ migration' = [migration EXCEPT !.oldMessages = Tail(@),
                           !.failed = @ \/ (~ok /\ Validates(message))]
  /\ MigrationUnchanged

\* 'Migration completed', process.exit(0)
MigrateCompleted ==
  /\ migration.pc = "loop"
  /\ migration.oldMessages = <<>>
  /\ migration' = [migration EXCEPT !.pc = "done", !.runs = @ + 1]
  /\ chats' = chats
  /\ MigrationUnchanged

\* ------------------------------------- the listeners' catch blocks

\* a catch block that emits to another connection
CatchAddressOther(h) == (h.sock % MaxSockets) + 1

\* socket.emit in a catch block: the connection the request came from
CatchAddress(h) == h.sock

\* User.findById or User.find of a sendMessage handler rejects: the
\* listener's catch emits 'Failed to send message'
FindRejects(m) ==
  /\ m \in 1..Len(sends)
  /\ sends[m].pc \in {"findSender", "findRoomUsers", "findReceiver"}
  /\ sends' = [sends EXCEPT ![m].pc = "done", ![m].result = "error"]
  /\ inbox' = Push(inbox, CatchAddress(sends[m]), ErrorEvent(m, "Failed to send message"))
  /\ UNCHANGED <<extVars, dirLang, dirStatus, sockets, users, rooms, chats,
                 lastReason, restCount>>

\* the translateSpeech call of a translateAudio handler rejects: the
\* listener's catch emits 'Translation failed: ...'
TranslateSpeechThrows(a) ==
  /\ a \in 1..Len(audios)
  /\ audios[a].pc = "translateSpeech"
  /\ audios' = [audios EXCEPT ![a].pc = "done", ![a].result = "error"]
  /\ inbox' = Push(inbox, CatchAddress(audios[a]),
                   AudioError(a, "Translation failed: Unknown error"))
  /\ UNCHANGED <<dirLang, dirStatus, sockets, users, rooms, sends, chats, lastReason,
                 restCount, configured, providerEmpty, translationCache, now, calls,
                 requests, stt, pipe, batchRun, migration,
                 tts, rtc>>

\* ------------------------------------------------------ specification

HasSocket(u) == \E s \in SocketIds : sockets[s].state # "free" /\ sockets[s].user = u

\* identities connect once each, in the order of their ids
NextToConnect(u) == ~HasSocket(u) /\ \A v \in Users : v < u => HasSocket(v)

\* the steps of the sendMessage handlers in flight
HandlerStep ==
  \/ \E m \in 1..MaxSends : FindSenderDone(m)
  \/ \E m \in 1..MaxSends : FindRoomUsersDone(m)
  \/ \E m \in 1..MaxSends : FindReceiverDone(m)
  \/ \E m \in 1..MaxSends, i \in 1..NumUsers, ok \in BOOLEAN : TranslateDone(m, i, ok)
  \/ \E m \in 1..MaxSends, ok \in BOOLEAN : SaveDone(m, ok)

\* Fan-out of one sendMessage: every identity connects at most once and may
\* disconnect, sockets join the room, and one sendMessage of any shape arrives
\* on any connection.
Next ==
  \/ \E u \in Users : NextToConnect(u) /\ Connect(u)
  \/ \E s \in SocketIds : SetupDone(s)
  \/ \E s \in SocketIds, r \in RoomIds : JoinRoom(s, r)
  \/ \E s \in SocketIds : Disconnect(s, "transport close")
  \/ \E s \in SocketIds : OfflineDone(s)
  \/ \E s \in SocketIds : sends = <<>> /\ SendMessage(s, "", NoRoom, NoReceiver)
  \/ \E s \in SocketIds, r \in RoomIds :
        sends = <<>> /\ SendMessage(s, "hello", r, NoReceiver)
  \/ \E s \in SocketIds, u \in Users \cup {GhostUser, NoReceiver} :
        sends = <<>> /\ SendMessage(s, "hello", NoRoom, u)
  \/ HandlerStep

Spec == Init /\ [][Next]_vars

\* Two sends of one connection: the identities connect, and the first
\* connection emits sendMessage to the room up to MaxSends times; the
\* handlers' awaits settle in any order.
NextOrder ==
  \/ \E u \in Users : NextToConnect(u) /\ Connect(u)
  \/ \E s \in SocketIds : SetupDone(s)
  \/ \E r \in RoomIds : SendMessage(1, "hello", r, NoReceiver)
  \/ \E m \in 1..MaxSends : FindSenderDone(m)
  \/ \E m \in 1..MaxSends : FindRoomUsersDone(m)
  \/ \E m \in 1..MaxSends, i \in 1..NumUsers, ok \in BOOLEAN : TranslateDone(m, i, ok)
  \/ \E m \in 1..MaxSends, ok \in BOOLEAN : SaveDone(m, ok)

SpecOrder == Init /\ [][NextOrder]_vars

\* The Chat collection: records written by one sendMessage of the first
\* connection and by the REST controller's saveMessage and translateMessage.
NextChat ==
  \/ ~HasSocket(1) /\ Connect(1)
  \/ \E s \in SocketIds : SetupDone(s)
  \/ \E r \in RoomIds : sends = <<>> /\ SendMessage(1, "hello", r, NoReceiver)
  \/ \E u \in Users : sends = <<>> /\ SendMessage(1, "hello", NoRoom, u)
  \/ HandlerStep
  \/ \E u \in Users, t \in Texts, r \in RoomIds, okLangs \in SUBSET Langs :
        SaveMessage(u, t, r, NoReceiver, okLangs)
  \/ \E u \in Users, t \in Texts, v \in Users \cup {NoReceiver}, okLangs \in SUBSET Langs :
        SaveMessage(u, t, NoRoom, v, okLangs)
  \/ \E k \in 1..(MaxSends + MaxRest), l \in Langs, ok \in BOOLEAN :
        TranslateMessage(k, l, ok)

SpecChat == Init /\ [][NextChat]_vars

\* Presence: any identity connects any number of times within the socket
\* ids, connections close for any reason, the sweep runs, and sockets join
\* and leave the room.
NextPresence ==
  \/ \E u \in Users : Connect(u)
  \/ \E s \in SocketIds : SetupDone(s)
  \/ \E s \in SocketIds, reason \in DisconnectReasons : Disconnect(s, reason)
  \/ \E s \in SocketIds : OfflineDone(s)
  \/ Sweep
  \/ \E s \in SocketIds, r \in RoomIds : JoinRoom(s, r)
  \/ \E s \in SocketIds, r \in RoomIds : LeaveRoom(s, r)

\* the directory languages play no part in presence: one profile
InitPresence == Init /\ dirLang = [u \in Users |-> IF u = 1 THEN "en" ELSE "fr"]

SpecPresence == InitPresence /\ [][NextPresence]_vars


\* The directory status: identities connect and disconnect while setups, the
\* heartbeat updates and the offline updates are awaited.
NextStatus ==
  \/ \E u \in Users : Connect(u)
  \/ \E s \in SocketIds : SetupDone(s)
  \/ \E s \in SocketIds : Disconnect(s, "transport close")
  \/ \E s \in SocketIds : OfflineDone(s)
  \/ \E s \in SocketIds : HeartbeatFires(s)
  \/ \E s \in SocketIds : HeartbeatDone(s)

\* every directory update that was issued is answered
SpecStatus ==
  /\ InitPresence /\ [][NextStatus]_vars
  /\ \A s \in SocketIds : /\ WF_vars(SetupDone(s))
                           /\ WF_vars(OfflineDone(s))
                           /\ WF_vars(HeartbeatDone(s))

\* Audio relay: identities connect, disconnect and reconnect while
\* translateAudio handlers wait for translateSpeech.
NextAudio ==
  \/ \E u \in Users : Connect(u)
  \/ \E s \in SocketIds : SetupDone(s)
  \/ \E s \in SocketIds : Disconnect(s, "transport close")
  \/ \E s \in SocketIds : OfflineDone(s)
  \/ \E s \in SocketIds, n \in AudioLengths, u \in Users : TranslateAudio(s, n, u)
  \/ \E a \in 1..MaxAudios, r \in SpeechResults : TranslateSpeechDone(a, r)

SpecAudio == InitPresence /\ [][NextAudio]_vars

\* utils/translator.js on its own: translateText and translateBatch calls
\* overlap, the provider serves, rate-limits or fails each request, and the
\* clock advances.
InitTranslator ==
  /\ InitChat
  /\ dirLang = [u \in Users |-> IF u = 1 THEN "en" ELSE "fr"]
  /\ configured \in BOOLEAN
  /\ providerEmpty \in {{}, {"yo"}}
  /\ InitTranslatorIdle
  /\ InitSpeechIdle

NextTranslator ==
  \/ \E text \in TrTexts, sl \in TrSources, tl \in TrTargets :
       TranslateTextCall(text, sl, tl)
  \/ \E c \in 1..MaxCalls, answer \in Answers : PostDone(c, answer)
  \/ \E c \in 1..MaxCalls : RetryAfter(c)
  \/ Tick
  \/ CleanCache

SpecTranslator == InitTranslator /\ [][NextTranslator]_vars

\* translateBatch: batches of every mix of texts overlap, the provider
\* serves or fails each chunk.
NextBatch ==
  \/ \E texts \in SeqsUpTo(TrTexts, MaxBatchLen), sl \in TrSources, tl \in TrTargets :
       TranslateBatchCall(texts, sl, tl)
  \/ \E c \in 1..MaxCalls, answer \in {"ok", "error"} : PostDone(c, answer)

SpecBatch == InitTranslator /\ [][NextBatch]_vars

\* The cache against a deterministic provider: every request is served, the
\* answer depends on the request alone.
NextCache ==
  \/ \E text \in TrTexts, sl \in TrSources, tl \in TrTargets :
       TranslateTextCall(text, sl, tl)
  \/ \E texts \in SeqsUpTo(TrTexts, MaxBatchLen), sl \in TrSources, tl \in TrTargets :
       TranslateBatchCall(texts, sl, tl)
  \/ \E c \in 1..MaxCalls : PostDone(c, "ok")

SpecCache == InitTranslator /\ [][NextCache]_vars

\* One speechToText call: the provider's events and the timer arrive in any
\* order.
NextSpeech ==
  \/ \E valid \in BOOLEAN, maxRetries \in 0..MaxRetriesArg : SpeechToText(valid, maxRetries)
  \/ BackoffDone
  \/ StartOk
  \/ StartFails
  \/ SessionStarted
  \/ Recognized
  \/ \E isError \in BOOLEAN, shouldRetry \in BOOLEAN : Canceled(isError, shouldRetry)
  \/ SessionStopped
  \/ TimerFires

SpecSpeech == InitPresence /\ [][NextSpeech]_vars

\* the same call with what the runtime and the SDK guarantee: timers fire,
\* the start callback is called, and a session that was asked to stop stops;
\* the provider's own events may never come
SpecSpeechLive ==
  /\ SpecSpeech
  /\ WF_vars(BackoffDone)
  /\ WF_vars(StartOk)
  /\ WF_vars(TimerFires)
  /\ WF_vars(StopAcknowledged)

\* utils/speechTranslator.js on its own: one translateSpeech call or one
\* batchTranslateSpeech call with any input; the recognizer's events, the
\* translation and the synthesis settle in any way.
NextPipeline ==
  \/ \E audioData \in AudioKinds, sl \in {"", "EN-us"}, tl \in {"en", "fr-FR"},
        creds \in BOOLEAN :
       batchRun.pc = "idle" /\ TranslateSpeech(0, audioData, sl, tl, creds)
  \/ TranslateSpeechNormalized
  \/ pipe.pc = "transcribe" /\ BackoffDone
  \/ pipe.pc = "transcribe" /\ StartOk
  \/ pipe.pc = "transcribe" /\ StartFails
  \/ pipe.pc = "transcribe" /\ Recognized
  \/ pipe.pc = "transcribe" /\ \E isError \in BOOLEAN, shouldRetry \in BOOLEAN :
                                  Canceled(isError, shouldRetry)
  \/ pipe.pc = "transcribe" /\ SessionStopped
  \/ SpeechToTextSettled
  \/ \E outcome \in TranslationOutcomes : PerformTranslationDone(outcome)
  \/ ConnectionTestDone
  \/ \E outcome \in SynthOutcomes : SynthesisDone(outcome)
  \/ TtsBackoffDone
  \/ TtsPauseDone
  \/ \E items \in BatchInputs, sl \in {"", "EN-us"}, tl \in {"en", "fr-FR"} :
       pipe.pc = "idle" /\ BatchTranslateSpeech(items, sl, tl)
  \/ BatchNormalized
  \/ \E transcripts \in UNION {[1..n -> Transcripts] : n \in 1..MaxItems} :
       BatchTranscribed(transcripts)
  \/ \E ok \in BOOLEAN : BatchTranslated(ok)
  \/ \E syntheses \in UNION {[1..n -> Syntheses] : n \in 1..MaxItems} :
       BatchSynthesized(syntheses)

SpecPipeline == InitPresence /\ [][NextPipeline]_vars

\* The relay over the pipeline: the identities connect, translateAudio
\* arrives on the first connection, its translateSpeech call runs through
\* the recognizer, the translation and the synthesis, and the listener resumes.
NextRelay ==
  \/ \E u \in Users : NextToConnect(u) /\ Connect(u)
  \/ \E s \in SocketIds : SetupDone(s)
  \/ \E n \in AudioLengths, u \in Users : TranslateAudio(1, n, u)
  \/ \E a \in 1..MaxAudios, audioData \in {"small", "corrupt", "wav"},
        tl \in {"en", "fr"} :
       TranslateSpeech(a, audioData, "en", tl, TRUE)
  \/ TranslateSpeechNormalized
  \/ pipe.pc = "transcribe" /\ BackoffDone
  \/ pipe.pc = "transcribe" /\ StartOk
  \/ pipe.pc = "transcribe" /\ StartFails
  \/ pipe.pc = "transcribe" /\ Recognized
  \/ pipe.pc = "transcribe" /\ \E isError \in BOOLEAN, shouldRetry \in BOOLEAN :
                                  Canceled(isError, shouldRetry)
  \/ pipe.pc = "transcribe" /\ SessionStopped
  \/ SpeechToTextSettled
  \/ \E outcome \in TranslationOutcomes : PerformTranslationDone(outcome)
  \/ ConnectionTestDone
  \/ \E outcome \in SynthOutcomes : SynthesisDone(outcome)
  \/ TtsBackoffDone
  \/ TtsPauseDone
  \/ \E a \in 1..MaxAudios : TranslateSpeechReturns(a)

SpecRelay == InitPresence /\ [][NextRelay]_vars

\* Failing collaborators: the identities connect, sendMessage requests
\* arrive one after the other on the first two connections and a
\* translateAudio request beside them on the second, and every lookup, save
\* and translateSpeech call may reject.
SettledSends == \A m \in 1..Len(sends) : sends[m].pc = "done"

NextFailure ==
  \/ \E u \in Users : NextToConnect(u) /\ Connect(u)
  \/ \E s \in SocketIds : SetupDone(s)
  \/ \E r \in RoomIds : JoinRoom(1, r)
  \/ \E s \in {1, 2}, r \in RoomIds :
        SettledSends /\ SendMessage(s, "hello", r, NoReceiver)
  \/ \E s \in {1, 2} : SettledSends /\ SendMessage(s, "hello", NoRoom, 1)
  \/ HandlerStep
  \/ \E m \in 1..MaxSends : FindRejects(m)
  \/ TranslateAudio(2, 100, 1)
  \/ \E a \in 1..MaxAudios, r \in SpeechResults : TranslateSpeechDone(a, r)
  \/ \E a \in 1..MaxAudios : TranslateSpeechThrows(a)

SpecFailure == InitPresence /\ [][NextFailure]_vars

\* The migration script run up to MaxRuns times over a collection written
\* by earlier versions.
InitMigration ==
  /\ dirLang = [u \in Users |-> IF u = 1 THEN "en" ELSE "fr"]
  /\ dirStatus = [u \in Users |-> [status |-> "offline", socketId |-> NoSocket]]
  /\ sockets = [s \in SocketIds |-> FreeSocket]
  /\ users = <<>> /\ rooms = <<>> /\ sends = <<>> /\ audios = <<>>
  /\ inbox = [s \in SocketIds |-> <<>>]
  /\ lastReason = "" /\ restCount = 0
  /\ configured = TRUE /\ providerEmpty = {}
  /\ InitTranslatorIdle
  /\ InitSpeechIdle
  /\ chats \in LegacyCollections

NextMigration ==
  \/ MigrateChatData
  \/ MigrateFound
  \/ \E ok \in BOOLEAN : MigrateMessage(ok)
  \/ MigrateCompleted

SpecMigration == InitMigration /\ [][NextMigration]_vars

\* ------------------------- utils/textToSpeechModule.js: the output files

MaxTts == 2               \* textToSpeech calls of one processTTSBatch window

\* path.join(tempDir, `tts_temp_${Date.now()}.wav`): the name is the clock
TempFileName(clock) == clock

NoFile == -1              \* tempFileName is not built yet

NewJob == [pc |-> "testing", tempFileName |-> NoFile, written |-> FALSE,
           audioData |-> 0, error |-> NoError]

FileExists(files, name) == name \in DOMAIN files

\* fs.unlinkSync(tempFileName)
Unlink(files, name) == [f \in DOMAIN files \ {name} |-> files[f]]

TtsUnchanged ==
  UNCHANGED <<dirLang, dirStatus, sockets, users, rooms, sends, chats, inbox,
              lastReason, restCount, audios, configured, providerEmpty,
              translationCache, now, calls, requests, stt, pipe, batchRun,
              migration, rtc>>

\* processTTSBatch(batch): batch.map starts performTextToSpeech, and so
\* textToSpeech, for every id of the window; each call runs up to its await
\* of testAzureSpeechConnection.  Job j synthesizes the text of the j-th id.
ProcessTTSBatch(n) ==
  /\ tts.jobs = <<>>
  /\ n <= CONCURRENCY_LIMIT
  /\ tts' = [tts EXCEPT !.jobs = [j \in 1..n |-> NewJob]]
  /\ TtsUnchanged

\* the connection test of job j is over: the loop body builds tempFileName
\* from Date.now(), creates the synthesizer on that file and calls
\* speakSsmlAsync
ConnectionTested(j) ==
  /\ j \in 1..Len(tts.jobs)
  /\ tts.jobs[j].pc = "testing"
  /\ tts' = [tts EXCEPT !.jobs[j].pc = "speaking",
                        !.jobs[j].tempFileName = TempFileName(now)]
  /\ TtsUnchanged

\* the SDK writes the audio synthesized for job j's text to the file the
\* synthesizer of job j was created on (the content is the job it is for)
AudioWritten(j) ==
  /\ j \in 1..Len(tts.jobs)
  /\ tts.jobs[j].pc = "speaking" /\ ~tts.jobs[j].written
  /\ tts' = [tts EXCEPT !.jobs[j].written = TRUE,
                        !.files = (tts.jobs[j].tempFileName :> j) @@ @]
  /\ TtsUnchanged

\* the result callback of speakSsmlAsync of job j: the file is read back and
\* deleted, or found missing
SpeakResult(j) ==
  /\ j \in 1..Len(tts.jobs)
  /\ tts.jobs[j].pc = "speaking" /\ tts.jobs[j].written
  /\ LET name == tts.jobs[j].tempFileName IN
       IF FileExists(tts.files, name)
       THEN tts' = [tts EXCEPT !.jobs[j].pc = "resolved",
                               !.jobs[j].audioData = tts.files[name],
                               !.files = Unlink(@, name)]
       ELSE tts' = [tts EXCEPT !.jobs[j].pc = "rejected",
                               !.jobs[j].error = "Audio file was not created"]
  /\ TtsUnchanged

\* One window of the batch pipeline's synthesis: the calls' connection tests,
\* the SDK's writes and the result callbacks come in any order while the
\* clock advances.
NextSynthesis ==
  \/ \E n \in 1..MaxTts : ProcessTTSBatch(n)
  \/ \E j \in 1..MaxTts : ConnectionTested(j)
  \/ \E j \in 1..MaxTts : AudioWritten(j)
  \/ \E j \in 1..MaxTts : SpeakResult(j)
  \/ Tick

SpecSynthesis == InitPresence /\ [][NextSynthesis]_vars

\* ------------------------------------------------ socket/webrtcHandler.js

MaxOffers == 1            \* 'offer' events handled during a run

\* an event of the call signaling; from is the socket.id of its payload
RtcEvent(k, ev, from) ==
  [ev |-> ev, id |-> k, content |-> "", translations |-> <<>>, room |-> NoRoom,
   from |-> from]

\* the 'offer' event k as it arrived: hasOffer is data.offer being truthy,
\* targetId is NoSocket when the field is missing, isConnected is the flag of
\* the handler (read by the listener of lines 101-174 only), targetLive is
\* whether io.sockets.sockets holds targetId
OfferRecord(s, hasOffer, targetId, listener) ==
  [sock |-> s, hasOffer |-> hasOffer, targetId |-> targetId, listener |-> listener,
   isConnected |-> rtc.isConnected[s], targetLive |-> Live(targetId)]

RtcUnchanged ==
  UNCHANGED <<dirLang, dirStatus, sockets, users, rooms, sends, chats,
              lastReason, restCount, audios, configured, providerEmpty,
              translationCache, now, calls, requests, stt, pipe, batchRun,
              migration, tts>>

\* socket.on('connect', ...) of the handler of lines 87-174: an event named
\* 'connect' is emitted on the socket (the server emits none of its own on a
\* socket that is already connected when the listener is attached)
ConnectEvent(s) ==
  /\ Live(s)
  /\ ~rtc.isConnected[s]
  /\ rtc' = [rtc EXCEPT !.isConnected[s] = TRUE]
  /\ inbox' = inbox
  /\ RtcUnchanged

\* socket.on('offer', ...) of lines 7-44
Offer(s, hasOffer, targetId) ==
  /\ Live(s)
  /\ Len(rtc.offers) < MaxOffers
  /\ LET k == Len(rtc.offers) + 1 IN
       /\ rtc' = [rtc EXCEPT !.offers = Append(@, OfferRecord(s, hasOffer, targetId, "offer"))]
       /\ inbox' = IF ~hasOffer \/ targetId = NoSocket THEN inbox
                   ELSE IF ~Live(targetId)
                   THEN Push(inbox, s, RtcEvent(k, "callError", s))
                   ELSE Push(inbox, targetId, RtcEvent(k, "incomingCall", s))
  /\ RtcUnchanged

\* socket.on('offer', ...) of lines 101-174, which returns at once while
\* isConnected is false
OfferWhenConnected(s, hasOffer, targetId) ==
  /\ Live(s)
  /\ Len(rtc.offers) < MaxOffers
  /\ LET k == Len(rtc.offers) + 1 IN
       /\ rtc' = [rtc EXCEPT !.offers =
                    Append(@, OfferRecord(s, hasOffer, targetId, "offerWhenConnected"))]
       /\ inbox' = IF ~rtc.isConnected[s] THEN inbox
                   ELSE IF ~hasOffer \/ targetId = NoSocket
                   THEN Push(inbox, s, RtcEvent(k, "callError", s))
                   ELSE IF ~Live(targetId)
                   THEN Push(inbox, s, RtcEvent(k, "callError", s))
                   ELSE Push(Push(inbox, targetId, RtcEvent(k, "callerInfo", s)),
                             targetId, RtcEvent(k, "incomingCall", s))
  /\ RtcUnchanged

\* Call signaling: identities connect and disconnect, and a connection emits
\* 'offer' with or without an offer, to a live, closed or unknown target.
NextCall ==
  \/ \E u \in Users : NextToConnect(u) /\ Connect(u)
  \/ \E s \in SocketIds : Disconnect(s, "transport close")
  \/ \E s \in SocketIds : ConnectEvent(s)
  \/ \E s \in SocketIds, hasOffer \in BOOLEAN, targetId \in SocketIds \cup {NoSocket} :
        Offer(s, hasOffer, targetId)
  \/ \E s \in SocketIds, hasOffer \in BOOLEAN, targetId \in SocketIds \cup {NoSocket} :
        OfferWhenConnected(s, hasOffer, targetId)

SpecCall == InitPresence /\ [][NextCall]_vars

\* ------------------------------------------------------------ claims

\* the identities a room handler resolved as its recipients, their languages
Recipients(h) == {h.roomUsers[i].id : i \in 1..Len(h.roomUsers)}
LangOf(u) == LangOrDefault(dirLang[u])
RecipientLangs(h) == {LangOf(u) : u \in Recipients(h)}
HasEntry(u) == \E i \in 1..Len(users) : users[i].userId = u
EventsOf(s, m) == {i \in 1..Len(inbox[s]) :
                     inbox[s][i].ev = "receiveMessage" /\ inbox[s][i].id = m}
Persisted(m) == {k \in 1..Len(chats) : chats[k].via = "sendMessage" /\ chats[k].id = m}
IsRoomSend(h) == h.roomId # NoRoom
\* the step in which handler m wrote its record and pushed its events
Delivers(m) == /\ m \in 1..Len(sends)
               /\ sends[m].pc = "saving"
               /\ sends'[m].result = "echo"

\* C1: one sendMessage invokes the translation once per distinct recipient
\* language that differs from the sender's language, never once per
\* recipient: a room send invokes it for exactly the distinct languages of its
\* recipients other than the sender's, a direct send once when the receiver's
\* language differs and not at all when it is the sender's, and a send that
\* ended before resolving recipients invokes nothing.
C1_OneInvocationPerLanguage ==
  \A m \in 1..Len(sends) :
    LET h == sends[m] IN
      /\ h.roomUsers # <<>> =>
           Len(h.invoked) = Cardinality(RecipientLangs(h) \ {LangOf(h.user)})
      /\ h.receiverLang # "" =>
           Len(h.invoked) = IF LangOf(h.receiverId) = LangOf(h.user) THEN 0 ELSE 1
      /\ (h.roomUsers = <<>> /\ h.receiverLang = "") => h.invoked = <<>>

\* a delivered room send whose two recipients share one foreign language
C1_Witness ==
  \E m \in 1..Len(sends) :
    LET h == sends[m] IN
      /\ IsRoomSend(h) /\ h.result = "echo"
      /\ Len(h.roomUsers) >= 2
      /\ Cardinality(RecipientLangs(h)) = 1
      /\ LangOf(h.user) \notin RecipientLangs(h)
      /\ Len(h.invoked) = 1

\* C2 (state part): the record of a room send whose translations all
\* succeeded has exactly the sender's language and the recipients' distinct
\* languages as keys, and every receiveMessage a recipient connection got for
\* it carries the entry of that recipient's language.
C2_KeysAndContent ==
  \A k \in 1..Len(chats) :
    LET c == chats[k] IN
      (c.via = "sendMessage" /\ c.room # NoRoom /\ sends[c.id].failed = {}) =>
        /\ DOMAIN c.translations = {c.originalLanguage} \cup RecipientLangs(sends[c.id])
        /\ \A s \in SocketIds \ {sends[c.id].sock} : \A i \in EventsOf(s, c.id) :
             inbox[s][i].content = c.translations[LangOf(sockets[s].user)]

\* C2 (step part): when such a send delivers, every recipient with a presence
\* entry gets one receiveMessage with the entry of its own language.
C2_EveryOnlineRecipient ==
  \A m \in 1..MaxSends :
    (Delivers(m) /\ IsRoomSend(sends[m]) /\ sends[m].failed = {}) =>
      \A u \in Recipients(sends[m]) :
        HasEntry(u) =>
          \E i \in 1..Len(users) :
            /\ users[i].userId = u
            /\ Len(inbox'[users[i].socketId]) = Len(inbox[users[i].socketId]) + 1
            /\ LET e == inbox'[users[i].socketId][Len(inbox'[users[i].socketId])]
               IN /\ e.ev = "receiveMessage" /\ e.id = m
                  /\ e.content = sends[m].translations[LangOf(u)]

\* C2: for a room send in which every translation succeeds, the persisted
\* translations map has exactly the keys {sender's language} and the distinct
\* recipient languages, and every online recipient receives a receiveMessage
\* whose content is the entry of its own preferred language.
C2_RoomSendAllSucceed == []C2_KeysAndContent /\ [][C2_EveryOnlineRecipient]_vars

\* a delivered room send with three keys and a recipient that got a translation
C2_Witness ==
  \E k \in 1..Len(chats) :
    LET c == chats[k] IN
      /\ c.via = "sendMessage" /\ c.room # NoRoom /\ sends[c.id].failed = {}
      /\ Cardinality(DOMAIN c.translations) = 3
      /\ \E s \in SocketIds \ {sends[c.id].sock} : \E i \in EventsOf(s, c.id) :
           /\ inbox[s][i].content # c.originalContent
           /\ inbox[s][i].content = c.translations[LangOf(sockets[s].user)]

\* C3: the receiveMessage events of a room send go only to connections that
\* are members of that room, besides the echo to the sender.
C3_OnlyRoomMembersReceive ==
  [][\A m \in 1..MaxSends :
       (Delivers(m) /\ IsRoomSend(sends[m])) =>
         \A s \in SocketIds \ {sends[m].sock} :
           inbox'[s] # inbox[s] => s \in Range(RoomMembers(rooms, sends[m].roomId))]_vars

\* C4: every receiveMessage that a delivered send pushed to its sender's
\* connection carries the sender's original text, and a delivered send has
\* pushed one.
C4_EchoIsOriginal ==
  \A m \in 1..Len(sends) :
    LET h == sends[m] IN
      /\ \A i \in EventsOf(h.sock, m) : inbox[h.sock][i].content = h.message
      /\ h.result = "echo" => EventsOf(h.sock, m) # {}

\* a delivered direct send whose receiver got a translation
C4_Witness ==
  \E m \in 1..Len(sends) :
    LET h == sends[m] IN
      /\ ~IsRoomSend(h) /\ h.result = "echo"
      /\ h.receiverLang \in DOMAIN h.translations
      /\ h.translations[h.receiverLang] # h.message
      /\ EventsOf(h.sock, m) # {}

\* the languages for which the provider returned a translation
Succeeded(h) == {l \in Range(h.invoked) : l \notin h.failed /\ l \notin Range(h.pending)
                                          /\ h.translations[l] # h.message}

\* C5 (state part): a failed translation never ends the send: a send with a
\* failed language ends only by delivering its persisted record or because
\* the write itself was rejected.
C5_FailureDoesNotAbort ==
  \A m \in 1..Len(sends) :
    LET h == sends[m] IN
      (h.failed # {} /\ h.pc = "done") =>
         \/ h.result = "echo" /\ Persisted(m) # {}
         \/ h.save = "rejected"

\* C5 (step part): when a room send with a failed language delivers, every
\* recipient with a presence entry whose language is the sender's gets the
\* original text, and every one whose language succeeded gets the provider's
\* translation into that language.
C5_OthersStillServed ==
  \A m \in 1..MaxSends :
    (Delivers(m) /\ IsRoomSend(sends[m]) /\ sends[m].failed # {}) =>
      \A u \in Recipients(sends[m]) :
        (HasEntry(u) /\ (LangOf(u) = LangOf(sends[m].user) \/ LangOf(u) \in Succeeded(sends[m]))) =>
          \E i \in 1..Len(users) :
            /\ users[i].userId = u
            /\ Len(inbox'[users[i].socketId]) = Len(inbox[users[i].socketId]) + 1
            /\ LET e == inbox'[users[i].socketId][Len(inbox'[users[i].socketId])]
               IN /\ e.ev = "receiveMessage" /\ e.id = m
                  /\ e.content = IF LangOf(u) = LangOf(sends[m].user)
                                 THEN sends[m].message
                                 ELSE ProviderText(sends[m].message, LangOf(u))

\* C5: translation failure is per language, not per send: when translating a
\* room message into one language fails, the message is still persisted
\* and still delivered to every online recipient whose language succeeded or
\* is the sender's, each with the content of its language.
C5_FailurePerLanguage == []C5_FailureDoesNotAbort /\ [][C5_OthersStillServed]_vars

\* a delivered room send with one failed and one succeeded language, whose
\* succeeded-language recipient got the translation
C5_Witness ==
  \E m \in 1..Len(sends) :
    LET h == sends[m] IN
      /\ IsRoomSend(h) /\ h.result = "echo" /\ h.failed # {} /\ Succeeded(h) # {}
      /\ \E s \in SocketIds \ {h.sock} : \E i \in EventsOf(s, m) :
           /\ LangOf(sockets[s].user) \in Succeeded(h)
           /\ inbox[s][i].content = ProviderText(h.message, LangOf(sockets[s].user))

\* C7: a sendMessage writes its record at most once, and once when it is
\* delivered; the record is written with no translation call of the message
\* still in flight and its translations table is the final one; no
\* receiveMessage of a message is pushed without its record written.
C7_PersistOnceAfterTranslations ==
  /\ \A m \in 1..Len(sends) :
       /\ Cardinality(Persisted(m)) <= 1
       /\ sends[m].result = "echo" => Cardinality(Persisted(m)) = 1
       /\ \A k \in Persisted(m) :
            /\ sends[m].pending = <<>>
            /\ chats[k].translations = sends[m].translations
  /\ \A s \in SocketIds : \A i \in 1..Len(inbox[s]) :
       inbox[s][i].ev = "receiveMessage" => Persisted(inbox[s][i].id) # {}

\* a delivered room send that had two provider calls in flight
C7_Witness ==
  \E m \in 1..Len(sends) :
    LET h == sends[m] IN
      /\ Persisted(m) # {} /\ Len(h.invoked) = 2
      /\ \A l \in Range(h.invoked) : ~TranslateSkips(h.message, l)
      /\ \E s \in SocketIds \ {h.sock} : EventsOf(s, m) # {}

\* C6: two sendMessage events that one connection emitted to one room, m1
\* before m2, are persisted in that order and received in that order by
\* every recipient: m2 is not written while m1 is still being handled, and
\* no connection holds m2's receiveMessage before m1's.
C6_SenderOrderPreserved ==
  \A m1, m2 \in 1..Len(sends) :
    (m1 < m2 /\ sends[m1].sock = sends[m2].sock /\ IsRoomSend(sends[m1])
       /\ sends[m1].roomId = sends[m2].roomId) =>
      /\ Persisted(m2) # {} =>
           \/ sends[m1].pc = "done" /\ Persisted(m1) = {}
           \/ \E k1 \in Persisted(m1) : \A k2 \in Persisted(m2) : k1 < k2
      /\ \A s \in SocketIds : \A i \in EventsOf(s, m1), j \in EventsOf(s, m2) : i < j

\* C8: in every Message record that is persisted or delivered,
\* translations[originalLanguage] exists and equals the original text.
C8_OriginalEntryKept ==
  /\ \A k \in 1..Len(chats) :
       /\ chats[k].originalLanguage \in DOMAIN chats[k].translations
       /\ chats[k].translations[chats[k].originalLanguage] = chats[k].originalContent
  /\ \A s \in SocketIds : \A i \in 1..Len(inbox[s]) :
       inbox[s][i].ev = "receiveMessage" =>
         LET h == sends[inbox[s][i].id] IN
           /\ h.originalLanguage \in DOMAIN inbox[s][i].translations
           /\ inbox[s][i].translations[h.originalLanguage] = h.message

\* the connection whose 'disconnect' event this step handles
Disconnects(s) == sockets[s].state = "open" /\ sockets'[s].state = "closed"

\* C9: a disconnect with a transient reason (not transport close, not ping
\* timeout) leaves the presence map as it is and starts no offline
\* broadcast; a disconnect with a permanent reason removes the connection's
\* entry (and, once the listener is attached, starts the offline broadcast).
C9_DeregisterByReason ==
  [][\A s \in SocketIds :
       Disconnects(s) =>
         IF lastReason' \in PermanentReasons
         THEN \A i \in 1..Len(users') : users'[i].socketId # s
         ELSE users' = users /\ sockets'[s].offline = sockets[s].offline]_vars

\* the connections of identity u that are open and registered, and the one
\* registered last
LiveEntries(u) == {i \in 1..Len(users) : users[i].userId = u /\ Live(users[i].socketId)}

\* C10: an identity has at most one presence entry, and resolving an identity
\* that has a registered live connection yields the address of the one
\* registered last.
C10_LastWriteWins ==
  \A u \in Users :
    /\ Cardinality({i \in 1..Len(users) : users[i].userId = u}) <= 1
    /\ LiveEntries(u) # {} =>
         FindSocket(u) = users[CHOOSE i \in LiveEntries(u) :
                                 \A j \in LiveEntries(u) : j <= i].socketId

\* C11: a handler that resumes after translateSpeech pushes audioTranscript
\* and translatedAudio to the address the receiver's identity resolves to at
\* that moment: whenever a translateAudio handler finishes with a transcript,
\* every event it pushes for the receiver goes to the socket that
\* Object.keys(users).find yields for the receiver when the handler resumes.
C11_AudioPushesToCurrentAddress ==
  [][\A a \in 1..Len(audios) :
       (audios[a].pc = "translateSpeech" /\ audios'[a].pc = "done"
        /\ audios'[a].result = "ok")
       => \A s \in SocketIds :
            (\E i \in 1..Len(inbox'[s]) :
               /\ i > Len(inbox[s])
               /\ inbox'[s][i].isLocal = FALSE)
            => s = FindSocket(audios[a].userId)]_vars

Finished(h) == h.pc \in {"returned", "thrown"}

\* C12: translate(T, source, target) with source = target, or with an empty
\* or blank T, returns T unchanged and issues no provider request, in every
\* configuration in which it is called.
C12_SkipReturnsInputWithoutRequest ==
  \A c \in 1..Len(calls) :
    (calls[c].kind = "text"
     /\ (calls[c].source = calls[c].target \/ IsBlank(calls[c].texts[1])))
    => /\ calls[c].pc = "returned"
       /\ calls[c].result = calls[c].texts
       /\ calls[c].reqs = 0

SameKey(r1, r2) ==
  /\ requests[r1].texts = requests[r2].texts
  /\ requests[r1].source = requests[r2].source
  /\ requests[r1].target = requests[r2].target

\* C13: within the TTL window the provider is asked at most once for a
\* (source, target, text) key, overlapping calls included: no two requests
\* for the same key that the provider serves (or has not answered yet) are
\* issued less than CACHE_TTL apart.
C13_OneRequestPerKeyWithinTtl ==
  \A r1, r2 \in 1..Len(requests) :
    (r1 < r2 /\ SameKey(r1, r2)
     /\ requests[r1].answer \in {"pending", "ok"}
     /\ requests[r2].answer \in {"pending", "ok"})
    => requests[r2].at - requests[r1].at >= CACHE_TTL

\* C14: a rate-limited call retries its request exactly once: one call
\* issues its request and at most one more because of RateLimited answers.
C14_RateLimitRetriedOnce ==
  \A c \in 1..Len(calls) : calls[c].kind = "text" => calls[c].reqs <= 2

\* what position i of a translateBatch result has to hold
BatchExpected(h, i) ==
  IF h.source = h.target \/ IsBlank(h.texts[i]) THEN h.texts[i]
  ELSE ProviderAnswer(h.texts[i], h.target)

\* C15: translateBatch(texts, s, t) returns an array of the length and index
\* order of texts: position i holds texts[i] unchanged when it is blank or
\* s = t, and otherwise its translation, whether it came from the cache or
\* from any chunk of the provider's answers.
C15_BatchKeepsLengthAndOrder ==
  \A c \in 1..Len(calls) :
    (calls[c].kind = "batch" /\ calls[c].pc = "returned")
    => /\ Len(calls[c].result) = Len(calls[c].texts)
       /\ DOMAIN calls[c].result = 1..Len(calls[c].texts)
       /\ \A i \in 1..Len(calls[c].texts) :
            calls[c].result[i] = BatchExpected(calls[c], i)

\* a batch answered in two chunks has returned, and so has a batch whose
\* texts were one blank, one served from the cache and one sent to the provider
C15_Witness ==
  \E c1, c2 \in 1..Len(calls) :
    /\ calls[c1].kind = "batch" /\ calls[c1].pc = "returned"
    /\ Len(calls[c1].todo) > MAX_BATCH_SIZE /\ calls[c1].reqs = 2
    /\ calls[c2].kind = "batch" /\ calls[c2].pc = "returned"
    /\ calls[c2].todo # <<>>
    /\ \E i, j \in DOMAIN calls[c2].cacheResults :
         /\ IsBlank(calls[c2].texts[i])
         /\ ~IsBlank(calls[c2].texts[j])
         /\ j < calls[c2].indices[1]

\* C16: whenever a translateText or translateBatch call returns or throws,
\* the cache holds at most CACHE_MAX_SIZE entries.
C16_CacheBounded ==
  [][\A c \in 1..Len(calls') :
       (Finished(calls'[c]) /\ (c > Len(calls) \/ ~Finished(calls[c])))
       => Len(translationCache') <= CACHE_MAX_SIZE]_vars

\* what a call does when the cache is always empty
NoCacheOutcome(h) ==
  IF ~configured THEN [pc |-> "thrown", result |-> <<>>]
  ELSE IF h.kind = "text"
  THEN IF ValidateTranslationRequest(h.texts[1], h.source, h.target) # NoSkip
       THEN [pc |-> "returned", result |-> h.texts]
       ELSE IF ProviderAnswer(h.texts[1], h.target) = ""
       THEN [pc |-> "thrown", result |-> <<>>]
       ELSE [pc |-> "returned", result |-> <<ProviderAnswer(h.texts[1], h.target)>>]
  ELSE [pc |-> "returned", result |-> [i \in 1..Len(h.texts) |-> BatchExpected(h, i)]]

\* C17: against a deterministic provider the cache changes no result: every
\* finished translateText or translateBatch call ends as it would with a
\* cache that is always empty.
C17_CacheIsPureOptimization ==
  \A c \in 1..Len(calls) :
    Finished(calls[c])
    => /\ calls[c].pc = NoCacheOutcome(calls[c]).pc
       /\ calls[c].result = NoCacheOutcome(calls[c]).result

\* C18: a buffer that fails isValidWavFormat is rejected before any provider
\* call, on the first attempt, with no backoff wait and no further attempt.
C18_InvalidFormatNotRetried ==
  (stt.pc # "idle" /\ ~stt.valid)
  => /\ stt.providerCalls = 0
     /\ stt.tries <= 1
     /\ stt.waits = <<>>

\* C19: speechToText makes at most maxRetries attempts; the waits between
\* attempts never decrease and never exceed 8000 ms; when every attempt
\* failed the call throws the error of the last attempt.
C19_BoundedRetriesCappedBackoff ==
  /\ stt.tries <= stt.maxRetries
  /\ \A i \in 1..Len(stt.waits) : stt.waits[i] <= 8000
  /\ \A i \in 1..Len(stt.waits) : i > 1 => stt.waits[i - 1] <= stt.waits[i]
  /\ stt.pc = "thrown"
     => /\ stt.tries = stt.maxRetries
        /\ Len(stt.errors) = stt.maxRetries
        /\ stt.outcome = <<stt.errors[Len(stt.errors)]>>

\* every one of five attempts failed, the last in another way than the one
\* before, and the call has thrown
C19_Witness ==
  /\ stt.pc = "thrown"
  /\ stt.maxRetries = MaxRetriesArg
  /\ Len(stt.waits) = MaxRetriesArg - 1
  /\ stt.errors[Len(stt.errors)] # stt.errors[Len(stt.errors) - 1]

\* C20: a recognition attempt whose timer fired before any speech was
\* recognized settles: it does not stay pending forever.
C20_AttemptSettlesAfterTimeout ==
  (stt.pc = "recognizing" /\ stt.timer = "fired" /\ stt.finalText = <<>>)
    ~> (stt.pc # "recognizing")

\* exactly one of audio and error is there
AudioXorError(result) ==
  \/ result.audio # NoAudio /\ result.error = NoError
  \/ result.audio = NoAudio /\ result.error # NoError

\* C21: every result translateSpeech returns and every per-item result of
\* batchTranslateSpeech has either audio and no error, or an error and no
\* audio; never both and never neither.
C21_ResultHasAudioXorError ==
  /\ pipe.pc = "done" => AudioXorError(pipe.result)
  /\ \A i \in 1..Len(batchRun.results) : AudioXorError(batchRun.results[i].result)

\* translateSpeech returned audio on the second call of textToSpeech, after
\* the first call had failed
C21_Witness ==
  /\ pipe.pc = "done"
  /\ pipe.result.audio # NoAudio
  /\ pipe.attempt = 1

\* C22: when the transcription succeeded and the translation failed,
\* translateSpeech has returned the original text, an empty translation, the
\* error and no audio, and textToSpeech was never called.
C22_TranslationFailureKeepsOriginal ==
  pipe.translationError # NoError =>
    /\ pipe.pc = "done"
    /\ pipe.result.text.original # ""
    /\ pipe.result.text.original = pipe.original
    /\ pipe.result.text.translated = ""
    /\ pipe.result.error = pipe.translationError
    /\ pipe.result.audio = NoAudio
    /\ "SYNTHESIZE" \notin Range(pipe.stages)
    /\ pipe.calls = 0 /\ pipe.synth = 0 /\ pipe.tests = 0

\* a translateSpeech call whose translation was rejected by the provider
C22_Witness ==
  /\ pipe.pc = "done"
  /\ pipe.translationError = "Translation failed: provider"
  /\ pipe.stages = <<"TRANSCRIBE", "TRANSLATE">>

\* C23: a translateAudio request whose transcription succeeded and whose
\* translation or synthesis failed still brings the requester the original
\* text: when the listener resumes with a result that has an error and a
\* non-empty text.original, one of the events it pushes to the requesting
\* connection carries that text.
C23_PartialTextReachesRequester ==
  [][\A a \in 1..Len(audios) :
       (/\ audios[a].pc = "translateSpeech" /\ audios'[a].pc = "done"
        /\ pipe.pc = "done" /\ pipe.owner = a
        /\ pipe.result.error # NoError
        /\ pipe.result.text.original # "")
       => \E i \in 1..Len(inbox'[audios[a].sock]) :
            /\ i > Len(inbox[audios[a].sock])
            /\ inbox'[audios[a].sock][i].id = a
            /\ inbox'[audios[a].sock][i].content = pipe.result.text.original]_vars

\* C24: a translateAudio request whose decoded buffer is no WAV file ends with
\* an error event to the requester and nothing else: while its translateSpeech
\* call runs no recognizer is opened and no synthesis is requested, and when
\* the listener resumes it pushes exactly one event, an error event with the
\* pipeline's error, to the requesting connection; no audioTranscript and no
\* translatedAudio event is pushed to anyone.
C24_CorruptBufferOnlyError ==
  [][\A a \in 1..Len(audios) :
       (audios[a].pc = "translateSpeech" /\ pipe.owner = a
        /\ pipe.audioData = "corrupt" /\ pipe.pc \in {"transcribe", "done"})
       => /\ stt.providerCalls = 0 /\ stt'.providerCalls = 0
          /\ pipe.synth = 0
          /\ pipe.pc = "done" => pipe.result.error # NoError
          /\ audios'[a].pc = "done" =>
               /\ audios'[a].result = "error"
               /\ inbox' = Push(inbox, audios[a].sock, AudioError(a, pipe.result.error))]_vars

\* the request with the corrupt buffer has ended, after speechToText gave up
C24_Witness ==
  \E a \in 1..Len(audios) :
    /\ audios[a].pc = "done" /\ audios[a].result = "error"
    /\ pipe.owner = a /\ pipe.audioData = "corrupt" /\ pipe.pc = "done"
    /\ stt.pc = "thrown"
    /\ \E i \in 1..Len(inbox[audios[a].sock]) :
         inbox[audios[a].sock][i] =
           AudioError(a, "Speech-to-text failed: Invalid audio format")

\* C25: when batchTranslateSpeech has returned, its output holds exactly one
\* result for the label of every input item and no result for another label,
\* whatever the outcome of every item was.
C25_OneResultPerLabel ==
  batchRun.pc = "done" =>
    /\ \A k \in 1..Len(batchRun.items) :
         Cardinality({i \in 1..Len(batchRun.results) :
                        batchRun.results[i].id = batchRun.items[k].id}) = 1
    /\ \A i \in 1..Len(batchRun.results) :
         \E k \in 1..Len(batchRun.items) : batchRun.results[i].id = batchRun.items[k].id

\* C26: the migration is idempotent.  No step of the script changes a
\* document that has originalContent and originalLanguage, and a run of the
\* script that follows a run in which every save was applied changes no
\* document: two runs leave the collection as one run does.
C26_MigrationIdempotent ==
  [][/\ \A k \in 1..Len(chats) :
          (Has(chats[k], "originalContent") /\ Has(chats[k], "originalLanguage"))
          => chats'[k] = chats[k]
     /\ (migration.runs >= 1 /\ ~migration.failed) => chats' = chats]_vars

\* the second run has ended over a collection the first run had changed and
\* in which a document still lacks originalContent
C26_Witness ==
  /\ migration.runs = 2 /\ migration.pc = "done" /\ ~migration.failed
  /\ chats # migration.initial
  /\ \E k \in 1..Len(chats) : ~Has(chats[k], "originalContent")

\* the step pushes one error event to socket s and nothing to anybody else
OnlyErrorTo(s) ==
  /\ Len(inbox'[s]) = Len(inbox[s]) + 1
  /\ SubSeq(inbox'[s], 1, Len(inbox[s])) = inbox[s]
  /\ inbox'[s][Len(inbox'[s])].ev = "error"
  /\ \A t \in SocketIds \ {s} : inbox'[t] = inbox[t]

\* C27: a request that ends because a collaborator call failed (a rejected
\* directory lookup or save of sendMessage, a thrown or failed translateSpeech
\* of translateAudio) is answered with one error event to the requesting
\* connection and to nobody else, and the step changes neither the users
\* map nor the rooms map nor any connection, so that later requests are served.
C27_FailureReportedToRequesterOnly ==
  [][/\ \A m \in 1..Len(sends) :
          (sends[m].pc # "done" /\ sends'[m].pc = "done" /\ sends'[m].result = "error")
          => /\ OnlyErrorTo(sends[m].sock)
             /\ users' = users /\ rooms' = rooms /\ sockets' = sockets
     /\ \A a \in 1..Len(audios) :
          (audios[a].pc # "done" /\ audios'[a].pc = "done" /\ audios'[a].result = "error")
          => /\ OnlyErrorTo(audios[a].sock)
             /\ users' = users /\ rooms' = rooms /\ sockets' = sockets]_vars

\* a lookup of the first sendMessage was rejected; the next sendMessage on
\* the same connection was delivered, and so was a translateAudio request on
\* another connection, in a room that still has its member
C27_Witness ==
  /\ Len(sends) = 2 /\ Len(audios) = 1
  /\ sends[1].pc = "done" /\ sends[1].result = "error" /\ sends[1].save = ""
  /\ sends[1].roomId # NoRoom
  /\ sends[2].sock = sends[1].sock /\ sends[2].result = "echo"
  /\ audios[1].sock # sends[1].sock /\ audios[1].result = "ok"
  /\ rooms # <<>>

\* the text the recognizer handed back, '' if it handed back none
Transcribed ==
  IF stt.pc = "returned" /\ stt.outcome # <<Undefined>> THEN JoinWords(stt.outcome) ELSE ""

\* C28: translateSpeech runs its stages in order, TRANSCRIBE, then TRANSLATE
\* unless the normalized languages are equal, then SYNTHESIZE.  A call that
\* got past the transcription has invoked TRANSLATE exactly when the
\* normalized source and target differ, and with equal languages it has
\* gone on to SYNTHESIZE with the original text; a call that returned an
\* error failed in the last stage it invoked, and its result holds the
\* texts of the stages before: the transcription once TRANSCRIBE succeeded,
\* the translation once TRANSLATE succeeded.
C28_StagesInOrder ==
  /\ pipe.stages \in {<<>>, <<"TRANSCRIBE">>, <<"TRANSCRIBE", "TRANSLATE">>,
                      <<"TRANSCRIBE", "SYNTHESIZE">>,
                      <<"TRANSCRIBE", "TRANSLATE", "SYNTHESIZE">>}
  /\ Len(pipe.stages) >= 2 =>
       /\ pipe.original = Transcribed /\ pipe.original # ""
       /\ pipe.stages[2] = "TRANSLATE" <=>
            NormalizedOrEn(pipe.sourceLanguage) # NormalizedOrEn(pipe.targetLanguage)
       /\ pipe.stages[2] = "SYNTHESIZE" => pipe.translated = pipe.original
  /\ (pipe.pc = "done" /\ pipe.stages # <<>> /\ Transcribed # "") =>
       /\ Len(pipe.stages) >= 2
       /\ pipe.result.text.original = Transcribed
  /\ (pipe.pc = "done" /\ pipe.stages # <<>> /\ Transcribed = "") =>
       /\ pipe.stages = <<"TRANSCRIBE">>
       /\ pipe.result.error # NoError
  /\ (pipe.pc = "done" /\ pipe.translationError # NoError) =>
       pipe.stages = <<"TRANSCRIBE", "TRANSLATE">>
  /\ (pipe.pc = "done" /\ "SYNTHESIZE" \in Range(pipe.stages)) =>
       /\ pipe.result.text.translated = pipe.translated
       /\ pipe.translated # ""
       /\ pipe.calls >= 1
  /\ "SYNTHESIZE" \notin Range(pipe.stages) => pipe.calls = 0

\* a call with the tags '' and 'en', which are one language once normalized,
\* skipped the translation and returned audio
C28_Witness ==
  /\ pipe.pc = "done"
  /\ pipe.sourceLanguage = "" /\ pipe.targetLanguage = "en"
  /\ pipe.stages = <<"TRANSCRIBE", "SYNTHESIZE">>
  /\ pipe.result.audio # NoAudio
  /\ pipe.result.text.translated = pipe.result.text.original

\* C29: one synthesis request of the pipeline (one performTextToSpeech call
\* of a translateSpeech call) makes at most maxRetries synthesis requests to
\* the provider in total, timed-out attempts included.
C29_SynthesisWithinRetryBudget == pipe.synth <= TtsMaxRetries

\* the first four bytes are 'RIFF'
StartsWithRiff(buffer) == Len(buffer) >= 1 /\ buffer[1] = RIFF

\* the buffers a synthesis may leave and their repaired forms
Buffers ==
  {WavFile, RawSamples, ShortSamples, NoAudio,
   ValidateAudioFormat(RawSamples), ValidateAudioFormat(ShortSamples)}

\* C30: the repair is applied when and only when the header check fails.
\* Every buffer translateSpeech returns without an error starts with the
\* RIFF marker; it is the provider's buffer itself when that had the marker,
\* and otherwise the provider's samples behind the 44-byte header for 16 kHz,
\* mono, 16 bit; and validateAudioFormat applied twice gives what it gives
\* applied once.
C30_RepairOnlyWithoutHeader ==
  /\ (pipe.pc = "done" /\ pipe.result.error = NoError) =>
       /\ StartsWithRiff(pipe.result.audio)
       /\ pipe.repaired <=> ~StartsWithRiff(pipe.provided)
       /\ StartsWithRiff(pipe.provided) => pipe.result.audio = pipe.provided
       /\ ~StartsWithRiff(pipe.provided) =>
            /\ ByteLength(pipe.result.audio) = 44 + ByteLength(pipe.provided)
            /\ SubSeq(pipe.result.audio, 1, 11) =
                 <<RIFF, 36 + ByteLength(pipe.provided), WAVE, FMT, 16, 65537,
                   16000, 32000, 1048578, DATA, ByteLength(pipe.provided)>>
            /\ SubSeq(pipe.result.audio, 12, Len(pipe.result.audio)) = pipe.provided
  /\ \A b \in Buffers :
       /\ ValidateAudioFormat(ValidateAudioFormat(b)) = ValidateAudioFormat(b)
       /\ StartsWithRiff(ValidateAudioFormat(b))
       /\ StartsWithRiff(b) => ValidateAudioFormat(b) = b

\* translateSpeech returned samples the provider had left without a header
C30_Witness ==
  /\ pipe.pc = "done" /\ pipe.result.error = NoError
  /\ pipe.provided = RawSamples
  /\ pipe.repaired
  /\ pipe.result.audio = WavHeader(44) \o RawSamples

\* ---------------------------------------------------------------- C31
\* C31: once speechToText has returned or thrown, none of the recognizers it
\* created is still in use: each of them had its recognition ended, whether
\* the attempt succeeded, met a provider error, could not start or timed out.
C31_RecognizerReleased ==
  stt.pc \in {"returned", "thrown"}
  => \A i \in 1..Len(stt.recognizers) : stt.recognizers[i] # "active"

\* ---------------------------------------------------------------- C32
\* C32: a run of the presence sweep removes exactly the entries whose
\* address is not a live connection: every entry left after the sweep belongs
\* to a live connection, and the entries of live connections are all kept,
\* unchanged and in their order.
C32_SweepRemovesExactlyStale ==
  [][Sweep =>
       /\ \A i \in 1..Len(users') : sockets[users'[i].socketId].state = "open"
       /\ users' = SelectSeq(users, LAMBDA e : sockets[e.socketId].state = "open")
       /\ UNCHANGED <<sockets, rooms, dirStatus>>]_vars

\* a sweep has removed the entry that a setup finishing after the disconnect
\* had stored (the connection is closed, its setup is done, its disconnect
\* listener never ran, and its entry is gone) and has kept a live entry
C32_Witness ==
  \E s \in SocketIds, t \in SocketIds :
    /\ sockets[s].state = "closed" /\ sockets[s].setup = "done"
    /\ sockets[s].offline = "none"
    /\ \A i \in 1..Len(users) : users[i].socketId # s
    /\ sockets[t].state = "open"
    /\ \E i \in 1..Len(users) : users[i].socketId = t

\* ---------------------------------------------------------------- C33
\* the rooms object is well formed: no room with an empty member list, no
\* connection twice in a list, and every member an open connection
RoomsWellFormed(rs) ==
  \A r \in DOMAIN rs :
    /\ rs[r] # <<>>
    /\ \A i, j \in 1..Len(rs[r]) : rs[r][i] = rs[r][j] => i = j
    /\ \A i \in 1..Len(rs[r]) : sockets'[rs[r][i]].state = "open"

\* C33: under every sequence of joinRoom, leaveRoom and disconnect events a
\* room is in the map exactly while it has members: a join creates it or adds
\* the connection once, a leave or a disconnect removes the connection and
\* deletes the room it has emptied, no room has an empty list or a connection
\* twice, and a disconnected connection is in no room.
C33_RoomExistsWhileNonEmpty ==
  [][/\ RoomsWellFormed(rooms')
     /\ \A s \in SocketIds, r \in RoomIds :
          /\ JoinRoom(s, r) => /\ r \in DOMAIN rooms'
                               /\ \E i \in 1..Len(rooms'[r]) : rooms'[r][i] = s
                               /\ \A t \in SocketIds \ {s} :
                                    (r \in DOMAIN rooms /\ t \in Range(rooms[r]))
                                    <=> t \in Range(rooms'[r])
          /\ LeaveRoom(s, r) => \/ r \notin DOMAIN rooms'
                                \/ s \notin Range(rooms'[r])
          /\ (\E reason \in DisconnectReasons : Disconnect(s, reason))
               => \A q \in DOMAIN rooms' : s \notin Range(rooms'[q])]_vars

\* a connection has closed and is in no room while the room lives on with
\* the two other connections as its members, each once
C33_Witness ==
  \E s \in SocketIds :
    /\ sockets[s].state = "closed"
    /\ "r1" \in DOMAIN rooms
    /\ Len(rooms["r1"]) = 2
    /\ s \notin Range(rooms["r1"])

\* ---------------------------------------------------------------- C34
\* C34: whatever the order of a connection's setup (the directory update it
\* awaits before it stores the entry) and its disconnect event, once the
\* disconnect was handled and the setup has finished the users object holds
\* no entry for that connection.
C34_NoEntryAfterDisconnectAndSetup ==
  \A s \in SocketIds :
    (sockets[s].state = "closed" /\ sockets[s].setup = "done")
    => \A i \in 1..Len(users) : users[i].socketId # s

\* ---------------------------------------------------------------- C35
\* the identity has a live connection
HasOpen(u) == \E s \in SocketIds : sockets[s].user = u /\ sockets[s].state = "open"

\* the identity was connected and its last live connection has disconnected
Gone(u) ==
  /\ ~HasOpen(u)
  /\ \E s \in SocketIds : sockets[s].user = u /\ sockets[s].state = "closed"

\* the directory record says offline with socketId: null
Offline(u) == dirStatus[u] = [status |-> "offline", socketId |-> NoSocket]

\* C35: after the last live connection of an identity has disconnected, its
\* directory record eventually says offline with a null socketId, and stays
\* so until the identity connects again, whatever the order of the setup,
\* the heartbeat updates in flight and the disconnect update; and no
\* heartbeat timer of a disconnected connection keeps running.
C35_OfflineAfterLastDisconnect ==
  /\ \A u \in Users : Gone(u) ~> (Offline(u) \/ HasOpen(u))
  /\ [][\A u \in Users :
          (Gone(u) /\ Offline(u)) => (Offline(u)' \/ HasOpen(u)')]_vars
  /\ [](\A s \in SocketIds : sockets[s].state = "closed" => ~sockets[s].heartbeat)

\* ---------------------------------------------------------------- C36
\* the receiveMessage and error events of sendMessage m pushed to connection s
TerminalEvents(m, s) ==
  {i \in 1..Len(inbox[s]) :
     inbox[s][i].id = m /\ inbox[s][i].ev \in {"receiveMessage", "error"}}

\* C36: every sendMessage whose listener has ended has brought the sender's
\* connection exactly one terminal event, a receiveMessage echo or an error,
\* whatever the message, roomId and receiverId fields were; no request ends
\* without a response.
C36_OneTerminalEventPerSend ==
  \A m \in 1..Len(sends) :
    sends[m].pc = "done" => Cardinality(TerminalEvents(m, sends[m].sock)) = 1

\* ---------------------------------------------------------------- C37
\* the events a step has pushed to address s
NewEvents(s) == SubSeq(inbox'[s], Len(inbox[s]) + 1, Len(inbox'[s]))

\* the positions of the events named ev with the given isLocal flag
EventsNamed(seq, ev, isLocal) ==
  {i \in 1..Len(seq) : seq[i].ev = ev /\ seq[i].isLocal = isLocal}

\* C37: a translateAudio request that succeeds brings the receiver's
\* connection exactly one audioTranscript followed by exactly one
\* translatedAudio, and the requester exactly one audioTranscript (isLocal)
\* and exactly one translationComplete; no event is delivered twice.
C37_EachAudioEventOnce ==
  [][\A a \in 1..Len(audios) :
       (audios[a].pc = "translateSpeech" /\ audios'[a].pc = "done"
        /\ audios'[a].result = "ok")
       => LET to == NewEvents(audios[a].receiverSocketId)
              from == NewEvents(audios[a].sock)
          IN /\ Cardinality(EventsNamed(to, "audioTranscript", FALSE)) = 1
             /\ Cardinality(EventsNamed(to, "translatedAudio", FALSE)) = 1
             /\ \A i \in EventsNamed(to, "audioTranscript", FALSE),
                   j \in EventsNamed(to, "translatedAudio", FALSE) : i < j
             /\ Cardinality(EventsNamed(from, "audioTranscript", TRUE)) = 1
             /\ Cardinality(EventsNamed(from, "translationComplete", TRUE)) = 1]_vars

\* ---------------------------------------------------------------- C38
\* every entry of a translations map under a language other than the
\* original one is the provider's translation of the text into that language
OnlyProviderEntries(translations, originalLanguage, text) ==
  \A l \in DOMAIN translations \ {originalLanguage} :
    translations[l] = ProviderText(text, l)

\* C38: in every message that sendMessage has persisted or delivered, each
\* translations entry under a language other than originalLanguage is the
\* text the provider returned for that language; a translation that failed,
\* was skipped or fell back to the original text has left no entry.
C38_TranslationsHoldProviderTextOnly ==
  /\ \A k \in 1..Len(chats) :
       chats[k].via = "sendMessage"
       => OnlyProviderEntries(chats[k].translations, chats[k].originalLanguage,
                              chats[k].originalContent)
  /\ \A s \in SocketIds : \A i \in 1..Len(inbox[s]) :
       inbox[s][i].ev = "receiveMessage"
       => LET h == sends[inbox[s][i].id]
          IN /\ OnlyProviderEntries(inbox[s][i].translations, h.originalLanguage,
                                    h.message)
             /\ \A l \in h.failed : l \notin DOMAIN inbox[s][i].translations

\* ---------------------------------------------------------------- C39
\* C39: synthesis attempts that overlap in time are isolated: no two of them
\* use the same temporary output file, every attempt that resolves has read
\* back the audio synthesized for its own text, and no attempt finds its file
\* missing because another attempt deleted it.
C39_AttemptsUseOwnFile ==
  \A i, j \in 1..Len(tts.jobs) :
    /\ (i # j /\ tts.jobs[i].pc = "speaking" /\ tts.jobs[j].pc = "speaking")
       => tts.jobs[i].tempFileName # tts.jobs[j].tempFileName
    /\ tts.jobs[i].pc = "resolved" => tts.jobs[i].audioData = i
    /\ tts.jobs[i].pc # "rejected"

\* ---------------------------------------------------------------- C40
\* C40: call signaling is routed, never dropped: every 'offer' event that
\* carried an offer and a targetId has produced an incomingCall event at the
\* target connection with from equal to the caller's socket id, or, when the
\* target was not a live connection, a callError event at the caller.
C40_OfferRoutedOrRefused ==
  \A k \in 1..Len(rtc.offers) :
    LET o == rtc.offers[k] IN
      (o.hasOffer /\ o.targetId # NoSocket)
      => \/ \E i \in 1..Len(inbox[o.targetId]) :
              inbox[o.targetId][i] = RtcEvent(k, "incomingCall", o.sock)
         \/ /\ ~o.targetLive
            /\ \E i \in 1..Len(inbox[o.sock]) :
                 inbox[o.sock][i] = RtcEvent(k, "callError", o.sock)

====
